---- MODULE Spec2Model ----
(***************************************************************************)
(* GeoMind map quiz (kobayashiHawtin/mapQuiz): the App component of        *)
(* src/src/App.tsx (container-pixel transform, minScale 1) and of          *)
(* src/unnamed/part_001 (viewBox transform, minScale 1.5), as one state    *)
(* machine.  The variable "variant" selects which of the two files the     *)
(* behaviour is a run of.                                                  *)
(*                                                                         *)
(* Numbers that the code holds in JavaScript doubles are modelled as exact *)
(* rationals <<n, d>> (d > 0, lowest terms).  Pointer positions are drawn  *)
(* from point sets whose pairwise distances are integers, so Math.hypot is *)
(* exact on them.                                                          *)
(***************************************************************************)
EXTENDS Integers, Sequences, FiniteSets, TLC

\* ------------------------------------------------------------------------
\* Exact rational arithmetic (the model's stand-in for JavaScript numbers)
\* ------------------------------------------------------------------------
Abs(i) == IF i < 0 THEN -i ELSE i

RECURSIVE GCD(_, _)
GCD(a, b) == IF b = 0 THEN a ELSE GCD(b, a % b)

\* n/d in lowest terms with a positive denominator
Norm(n, d) ==
  LET g == GCD(Abs(n), Abs(d))
      s == IF d < 0 THEN -1 ELSE 1
  IN  <<(s * n) \div g, (s * d) \div g>>

R(i) == <<i, 1>>
RAdd(a, b) == Norm(a[1] * b[2] + b[1] * a[2], a[2] * b[2])
RSub(a, b) == Norm(a[1] * b[2] - b[1] * a[2], a[2] * b[2])
RNeg(a) == <<-a[1], a[2]>>
RMul(a, b) ==
  LET g1 == GCD(Abs(a[1]), b[2])
      g2 == GCD(Abs(b[1]), a[2])
      h1 == IF g1 = 0 THEN 1 ELSE g1
      h2 == IF g2 = 0 THEN 1 ELSE g2
  IN  Norm((a[1] \div h1) * (b[1] \div h2), (a[2] \div h2) * (b[2] \div h1))
RDiv(a, b) == RMul(a, Norm(b[2], b[1]))
RLt(a, b) == a[1] * b[2] < b[1] * a[2]
RLe(a, b) == a[1] * b[2] <= b[1] * a[2]
RMin(a, b) == IF RLe(a, b) THEN a ELSE b
RMax(a, b) == IF RLe(b, a) THEN a ELSE b
RAbs(a) == <<Abs(a[1]), a[2]>>
RIsZero(a) == a[1] = 0

\* ------------------------------------------------------------------------
\* Program constants
\* ------------------------------------------------------------------------
MAP_WIDTH == 800
MAP_HEIGHT == 400
MaxScaleValue == 20
MovedThreshold == 6
ScoreAward == 10
FitPadding == 40

\* null and undefined are records, so that they compare with every other
\* record value of the model (features, hints, feedback, points)
NULL == [type |-> "null"]
UNDEF == [type |-> "undefined"]

Variants == {"px", "viewBox"}

\* minScale: 1 in src/src/App.tsx, 1.5 in src/unnamed/part_001
MinScale(v) == IF v = "px" THEN <<1, 1>> ELSE <<3, 2>>
MaxScale == R(MaxScaleValue)

\* ------------------------------------------------------------------------
\* Regions: raw features as the geometry source delivers them.
\* A property that is absent (or the empty string) is "", which is falsy in
\* every `a || b` chain of the code, as undefined is.
\* ------------------------------------------------------------------------
Props(admin, name, isoA3, alpha3, isoA2, alpha2) ==
  [ADMIN |-> admin, name |-> name, ISO_A3 |-> isoA3, Alpha3 |-> alpha3,
   ISO_A2 |-> isoA2, Alpha2 |-> alpha2]

\* the fixture of src/tests/map-quiz.spec.ts
F_JPN == [geometry |-> [type |-> "Polygon",
                        coordinates |-> << << <<-120, 60>>, <<120, 60>>, <<120, -20>>,
                                <<-120, -20>>, <<-120, 60>> >> >>],
          properties |-> Props("Japan", "", "JPN", "", "", "")]
\* two detached polygons, identified and named through the alpha-2/alpha-3 fields
F_FJI == [geometry |-> [type |-> "MultiPolygon",
                        coordinates |-> << << << <<-90, -18>>, <<-81, -18>>, <<-81, -27>>,
                                   <<-90, -18>> >> >>,
                             << << <<-72, -36>>, <<-63, -36>>, <<-63, -45>>,
                                   <<-72, -36>> >> >> >>],
          properties |-> Props("", "Fiji", "", "FJI", "", "fj")]
\* two features of the public data set that share the placeholder code -99
F_KOS == [geometry |-> [type |-> "Polygon",
                        coordinates |-> << << <<18, 45>>, <<27, 45>>, <<27, 36>>, <<18, 45>> >> >>],
          properties |-> Props("Kosovo", "", "-99", "", "", "")]
F_SOM == [geometry |-> [type |-> "Polygon",
                        coordinates |-> << << <<45, 9>>, <<54, 9>>, <<54, 0>>, <<45, 9>> >> >>],
          properties |-> Props("Somaliland", "", "-99", "", "", "")]
\* a named polygon without any ring
F_VOID == [geometry |-> [type |-> "Polygon",
                         coordinates |-> << >>],
           properties |-> Props("Void", "", "VOI", "", "", "")]
\* valid geometry, no name field
F_NONAME == [geometry |-> [type |-> "Polygon",
                           coordinates |-> << << <<0, 9>>, <<9, 9>>, <<9, 0>>, <<0, 9>> >> >>],
             properties |-> Props("", "", "XXX", "", "", "")]
\* unsupported geometry kind
F_POINT == [geometry |-> [type |-> "Point",
                          coordinates |-> << >>],
            properties |-> Props("Pin", "", "PIN", "", "", "")]
\* a dependency that part_001 keeps out through its exclusion list
F_GRL == [geometry |-> [type |-> "Polygon",
                        coordinates |-> << << <<-54, 81>>, <<-18, 81>>, <<-18, 63>>, <<-54, 81>> >> >>],
          properties |-> Props("Greenland", "", "GRL", "", "", "")]

\* part_001's exclusion list, restricted to the names the raw features carry
ExcludeList == {"Greenland", "Puerto Rico", "Hong Kong"}

Or2(a, b) == IF a # "" THEN a ELSE b

\* a raw feature may lack its geometry (geometry is NULL)
F_NOGEOM == [geometry |-> NULL,
             properties |-> Props("Nowhere", "", "NWH", "", "", "")]

isGeometrySupported(geometry) ==
  geometry # NULL /\ geometry.type \in {"Polygon", "MultiPolygon"}
hasName(properties) == properties.ADMIN # "" \/ properties.name # ""
getEnglishName(p) == Or2(p.ADMIN, Or2(p.name, "Unknown"))
getCountryId(p) ==
  Or2(p.ISO_A3, Or2(p.Alpha3, Or2(p.name, Or2(p.ADMIN, "unknown"))))

\* toUpperCase and /^[A-Z]{2}$/ on the codes the features carry; the display
\* name Intl.DisplayNames('ja') gives for region XX is written "ja:XX".
UpperCase(c) == CASE c = "fj" -> "FJ" [] c = "jp" -> "JP" [] OTHER -> c
IsAlpha2(c) == c \in {"FJ", "JP"}
getJapaneseName(p) ==
  LET regionCode == UpperCase(Or2(p.Alpha2, p.ISO_A2))
  IN  IF regionCode # "" /\ IsAlpha2(regionCode)
      THEN "ja:" \o regionCode
      ELSE getEnglishName(p)

\* ------------------------------------------------------------------------
\* Projector
\* ------------------------------------------------------------------------
RECURSIVE Flatten(_)
Flatten(ss) == IF ss = << >> THEN << >> ELSE Head(ss) \o Flatten(Tail(ss))

extractPoints(geometry) ==
  IF geometry.type = "Polygon"
  THEN Flatten(geometry.coordinates)
  ELSE Flatten([i \in 1..Len(geometry.coordinates) |->
                  Flatten(geometry.coordinates[i])])

\* project([lon, lat]) = [(lon + 180) * (800 / 360), (90 - lat) * (400 / 180)]
\* (first: the same with y growing with the latitude)
projectNorthDown(pt) ==
  <<RMul(R(pt[1] + 180), Norm(MAP_WIDTH, 360)),
    RMul(R(pt[2] + 90), Norm(MAP_HEIGHT, 180))>>
project(pt) ==
  <<RMul(R(pt[1] + 180), Norm(MAP_WIDTH, 360)),
    RMul(R(90 - pt[2]), Norm(MAP_HEIGHT, 180))>>

RECURSIVE FoldMin(_, _), FoldMax(_, _)
FoldMin(rs, acc) ==
  IF rs = << >> THEN acc ELSE FoldMin(Tail(rs), RMin(acc, Head(rs)))
FoldMax(rs, acc) ==
  IF rs = << >> THEN acc ELSE FoldMax(Tail(rs), RMax(acc, Head(rs)))

BoundsOf(pts) ==
  LET xs == [i \in 1..Len(pts) |-> project(pts[i])[1]]
      ys == [i \in 1..Len(pts) |-> project(pts[i])[2]]
  IN  [minX |-> FoldMin(xs, xs[1]), maxX |-> FoldMax(xs, xs[1]),
       minY |-> FoldMin(ys, ys[1]), maxY |-> FoldMax(ys, ys[1])]

getProjectedBounds(f) ==
  LET points == extractPoints(f.geometry)
  IN  IF Len(points) = 0 THEN NULL ELSE BoundsOf(points)

\* ------------------------------------------------------------------------
\* Path builder.  The outline string d is modelled as its sequence of
\* tokens: M, the projected points of a ring (the " L" between them is
\* implied), Z, and the " " that join(' ') puts between sub-paths; d is the
\* empty string iff the sequence is empty.
\* ------------------------------------------------------------------------
RECURSIVE JoinSpace(_)
JoinSpace(parts) ==
  IF parts = << >> THEN << >>
  ELSE IF Len(parts) = 1 THEN parts[1]
  ELSE parts[1] \o <<[cmd |-> " "]>> \o JoinSpace(Tail(parts))

Tok(c) == [cmd |-> c]
renderRing(ring) ==
  <<Tok("M")>>
  \o [i \in 1..Len(ring) |->
        [cmd |-> "pt", x |-> project(ring[i])[1], y |-> project(ring[i])[2]]]
  \o <<Tok("Z")>>
renderPolygon(poly) ==
  JoinSpace([i \in 1..Len(poly) |-> renderRing(poly[i])])

OutlineOf(f) ==
  LET type == f.geometry.type
      coordinates == f.geometry.coordinates
  IN  IF type = "Polygon" THEN renderPolygon(coordinates)
      ELSE IF type = "MultiPolygon"
      THEN JoinSpace([i \in 1..Len(coordinates) |-> renderPolygon(coordinates[i])])
      ELSE << >>

\* (first: the same with only the last of the regions of one identifier kept)
RECURSIVE FlatMapPathsLastWins(_)
FlatMapPathsLastWins(fs) ==
  IF fs = << >> THEN << >>
  ELSE LET f == Head(fs)
           d == OutlineOf(f)
           again == \E i \in 2..Len(fs) :
                      getCountryId(fs[i].properties) = getCountryId(f.properties)
       IN  (IF d = << >> \/ again THEN << >>
            ELSE << [id |-> getCountryId(f.properties),
                     name |-> getJapaneseName(f.properties),
                     d |-> d] >>)
           \o FlatMapPathsLastWins(Tail(fs))
RECURSIVE FlatMapPaths(_)
FlatMapPaths(fs) ==
  IF fs = << >> THEN << >>
  ELSE LET f == Head(fs)
           d == OutlineOf(f)
       IN  (IF d = << >> THEN << >>
            ELSE << [id |-> getCountryId(f.properties),
                     name |-> getJapaneseName(f.properties),
                     d |-> d] >>)
           \o FlatMapPaths(Tail(fs))

\* pathData of a geoData value (useMemo over geoData)
PathDataOf(g) == IF g = NULL THEN << >> ELSE FlatMapPaths(g.features)

\* ------------------------------------------------------------------------
\* Geometry loader: the filter of fetchGeoData
\* ------------------------------------------------------------------------
\* (first: the same without the test of the name fields)
KeepsFeatureGeometryOnly(v, f) ==
  /\ isGeometrySupported(f.geometry)
  /\ v = "viewBox" =>
       LET name == Or2(f.properties.ADMIN, f.properties.name)
           iso3 == Or2(f.properties.ISO_A3, f.properties.Alpha3)
       IN  ~(name \in ExcludeList \/ iso3 = "-99" \/ iso3 = "-1")
KeepsFeature(v, f) ==
  /\ isGeometrySupported(f.geometry)
  /\ hasName(f.properties)
  /\ v = "viewBox" =>
       LET name == Or2(f.properties.ADMIN, f.properties.name)
           iso3 == Or2(f.properties.ISO_A3, f.properties.Alpha3)
       IN  ~(name \in ExcludeList \/ iso3 = "-99" \/ iso3 = "-1")

RECURSIVE FilterValid(_, _)
FilterValid(v, fs) ==
  IF fs = << >> THEN << >>
  ELSE (IF KeepsFeature(v, Head(fs))
        THEN << [type |-> "Feature",
                 geometry |-> Head(fs).geometry,
                 properties |-> Head(fs).properties] >>
        ELSE << >>)
       \o FilterValid(v, Tail(fs))

\* ------------------------------------------------------------------------
\* Viewport engine: pure parts
\* ------------------------------------------------------------------------
\* +Infinity, as Math.exp gives it on overflow: larger than every rational
\* under RLe/RLt, and prev.scale * Infinity = Infinity for prev.scale > 0
INF == <<1, 0>>

\* Math.hypot on integer differences whose length is an integer
Hypot(dx, dy) ==
  CHOOSE r \in 0..(Abs(dx) + Abs(dy)) : r * r = dx * dx + dy * dy

Pt(x, y) == [x |-> x, y |-> y]

\* pts is the Map pointerId -> {x, y} as the sequence of its entries in
\* insertion order (Array.from(pts.values()))
getCenter(pts) ==
  IF Len(pts) = 1 THEN Pt(R(pts[1].x), R(pts[1].y))
  ELSE IF Len(pts) >= 2
  THEN Pt(RDiv(R(pts[1].x + pts[2].x), R(2)), RDiv(R(pts[1].y + pts[2].y), R(2)))
  ELSE Pt(R(0), R(0))

getDist(pts) ==
  IF Len(pts) < 2 THEN R(0)
  ELSE R(Hypot(pts[1].x - pts[2].x, pts[1].y - pts[2].y))

MapHas(pts, id) == \E i \in 1..Len(pts) : pts[i].id = id
\* Map.set: an existing key keeps its place, a new key goes last
MapSet(pts, id, x, y) ==
  IF MapHas(pts, id)
  THEN [i \in 1..Len(pts) |->
          IF pts[i].id = id THEN [id |-> id, x |-> x, y |-> y] ELSE pts[i]]
  ELSE Append(pts, [id |-> id, x |-> x, y |-> y])
MapDelete(pts, id) == SelectSeq(pts, LAMBDA e : e.id # id)

\* Math.max(minScale, Math.min(20, raw))
\* (the same with the upper limit written as 200)
ClampScaleTenfoldMax(v, raw) ==
  RMax(MinScale(v), RMin(R(MaxScaleValue * 10), raw))
ClampScale(v, raw) == RMax(MinScale(v), RMin(MaxScale, raw))

\* src/src/App.tsx: the updater of the pinch branch and of handleWheel
ZoomPx(prev, cx, cy, factor) ==
  LET nextScale == ClampScale("px", RMul(prev.scale, factor))
      s == RDiv(nextScale, prev.scale)
  IN  [scale |-> nextScale,
       x |-> RSub(cx, RMul(RSub(cx, prev.x), s)),
       y |-> RSub(cy, RMul(RSub(cy, prev.y), s))]

\* src/unnamed/part_001: screen -> SVG coordinate under the viewBox
\* `${-x/scale} ${-y/scale} ${800/scale} ${400/scale}`, as the handlers compute it
svgCoord(c, extent, base, t, scale) ==
  RAdd(RMul(RDiv(c, extent), RDiv(R(base), scale)), RDiv(RNeg(t), scale))

\* src/unnamed/part_001: the updater of the pinch branch and of handleWheel;
\* seen is the transform of the render whose handler runs, prev the state
\* the updater is applied to
ZoomVB(prev, seen, cx, cy, rect, factor) ==
  LET svgX == svgCoord(cx, R(rect.width), MAP_WIDTH, seen.x, seen.scale)
      svgY == svgCoord(cy, R(rect.height), MAP_HEIGHT, seen.y, seen.scale)
      nextScale == ClampScale("viewBox", RMul(prev.scale, factor))
  IN  [scale |-> nextScale,
       x |-> RMul(RNeg(RSub(svgX, RMul(RDiv(cx, R(rect.width)),
                                       RDiv(R(MAP_WIDTH), nextScale)))), nextScale),
       y |-> RMul(RNeg(RSub(svgY, RMul(RDiv(cy, R(rect.height)),
                                       RDiv(R(MAP_HEIGHT), nextScale)))), nextScale)]

\* one zoom step of the variant v
ZoomStep(v, prev, seen, cx, cy, rect, factor) ==
  IF v = "px" THEN ZoomPx(prev, cx, cy, factor)
  ELSE ZoomVB(prev, seen, cx, cy, rect, factor)

\* the pan updater: {...prev, x: prev.x + dx, y: prev.y + dy}
\* (first: the same with the delta divided by the scale)
PanByContentDelta(prev, dx, dy) ==
  [prev EXCEPT !.x = RAdd(prev.x, RDiv(dx, prev.scale)),
               !.y = RAdd(prev.y, RDiv(dy, prev.scale))]
PanBy(prev, dx, dy) == [prev EXCEPT !.x = RAdd(prev.x, dx), !.y = RAdd(prev.y, dy)]

\* Math.exp(-deltaY * sensitivity) for the wheel deltas whose exponent is
\* k * ln 2: 2^k, Infinity on overflow and 0 on underflow of the double
zoomFactorOf(k) ==
  IF k > 1023 THEN INF
  ELSE IF k < -1074 THEN R(0)
  ELSE IF k >= 0 THEN R(2 ^ k) ELSE <<1, 2 ^ (-k)>>

resetTransform(v) == [x |-> R(0), y |-> R(0), scale |-> MinScale(v)]

\* ------------------------------------------------------------------------
\* Fit-to-region: the body of the requestAnimationFrame callback
\* ------------------------------------------------------------------------
\* path.getBBox(): the box of the points of the outline; the empty box at
\* the origin for an outline without points
BBoxOf(d) ==
  LET pts == SelectSeq(d, LAMBDA tok : tok.cmd = "pt")
      xs == [i \in 1..Len(pts) |-> pts[i].x]
      ys == [i \in 1..Len(pts) |-> pts[i].y]
  IN  IF pts = << >>
      THEN [minX |-> R(0), maxX |-> R(0), minY |-> R(0), maxY |-> R(0)]
      ELSE [minX |-> FoldMin(xs, xs[1]), maxX |-> FoldMax(xs, xs[1]),
            minY |-> FoldMin(ys, ys[1]), maxY |-> FoldMax(ys, ys[1])]

\* svg.querySelector(`path[data-country-id="${targetId}"]`): the first
\* rendered path with that identifier, NULL when there is none
QueryPath(paths, targetId) ==
  IF \E i \in 1..Len(paths) : paths[i].id = targetId
  THEN paths[CHOOSE i \in 1..Len(paths) :
               /\ paths[i].id = targetId
               /\ \A j \in 1..(i - 1) : paths[j].id # targetId]
  ELSE NULL

MeasureBounds(paths, target) ==
  LET path == QueryPath(paths, getCountryId(target.properties))
  IN  IF path # NULL THEN BBoxOf(path.d) ELSE getProjectedBounds(target)

\* src/src/App.tsx lines 520-542
\* (first: the same without the offsets of the letterboxed <svg>)
FitPxNoOffset(bounds, cw, ch) ==
  LET baseScale == RMin(RDiv(R(cw), R(MAP_WIDTH)), RDiv(R(ch), R(MAP_HEIGHT)))
      width == RMax(R(1), RSub(bounds.maxX, bounds.minX))
      height == RMax(R(1), RSub(bounds.maxY, bounds.minY))
      scaleX == RDiv(R(cw - FitPadding * 2), RMul(width, baseScale))
      scaleY == RDiv(R(ch - FitPadding * 2), RMul(height, baseScale))
      nextScale == ClampScale("px", RMin(scaleX, scaleY))
      centerX == RDiv(RAdd(bounds.minX, bounds.maxX), R(2))
      centerY == RDiv(RAdd(bounds.minY, bounds.maxY), R(2))
      centerCssX == RMul(centerX, baseScale)
      centerCssY == RMul(centerY, baseScale)
  IN  [scale |-> nextScale,
       x |-> RSub(RDiv(R(cw), R(2)), RMul(centerCssX, nextScale)),
       y |-> RSub(RDiv(R(ch), R(2)), RMul(centerCssY, nextScale))]
FitPx(bounds, cw, ch) ==
  LET baseScale == RMin(RDiv(R(cw), R(MAP_WIDTH)), RDiv(R(ch), R(MAP_HEIGHT)))
      offsetX == RDiv(RSub(R(cw), RMul(R(MAP_WIDTH), baseScale)), R(2))
      offsetY == RDiv(RSub(R(ch), RMul(R(MAP_HEIGHT), baseScale)), R(2))
      width == RMax(R(1), RSub(bounds.maxX, bounds.minX))
      height == RMax(R(1), RSub(bounds.maxY, bounds.minY))
      scaleX == RDiv(R(cw - FitPadding * 2), RMul(width, baseScale))
      scaleY == RDiv(R(ch - FitPadding * 2), RMul(height, baseScale))
      nextScale == ClampScale("px", RMin(scaleX, scaleY))
      centerX == RDiv(RAdd(bounds.minX, bounds.maxX), R(2))
      centerY == RDiv(RAdd(bounds.minY, bounds.maxY), R(2))
      centerCssX == RAdd(offsetX, RMul(centerX, baseScale))
      centerCssY == RAdd(offsetY, RMul(centerY, baseScale))
  IN  [scale |-> nextScale,
       x |-> RSub(RDiv(R(cw), R(2)), RMul(centerCssX, nextScale)),
       y |-> RSub(RDiv(R(ch), R(2)), RMul(centerCssY, nextScale))]

\* src/unnamed/part_001 lines 544-567
FitVB(bounds, cw, ch) ==
  LET width == RMax(R(1), RSub(bounds.maxX, bounds.minX))
      height == RMax(R(1), RSub(bounds.maxY, bounds.minY))
      centerX == RDiv(RAdd(bounds.minX, bounds.maxX), R(2))
      centerY == RDiv(RAdd(bounds.minY, bounds.maxY), R(2))
      scaleX == RDiv(R(MAP_WIDTH),
                     RAdd(width, RMul(RDiv(R(FitPadding * 2), R(cw)), R(MAP_WIDTH))))
      scaleY == RDiv(R(MAP_HEIGHT),
                     RAdd(height, RMul(RDiv(R(FitPadding * 2), R(ch)), R(MAP_HEIGHT))))
      nextScale == ClampScale("viewBox", RMin(scaleX, scaleY))
      newViewWidth == RDiv(R(MAP_WIDTH), nextScale)
      newViewHeight == RDiv(R(MAP_HEIGHT), nextScale)
  IN  [scale |-> nextScale,
       x |-> RMul(RNeg(RSub(centerX, RDiv(newViewWidth, R(2)))), nextScale),
       y |-> RMul(RNeg(RSub(centerY, RDiv(newViewHeight, R(2)))), nextScale)]

FitTransform(v, bounds, cw, ch) ==
  IF v = "px" THEN FitPx(bounds, cw, ch) ELSE FitVB(bounds, cw, ch)

\* ------------------------------------------------------------------------
\* Hint provider.  A hint text is the sequence of its parts.
\* ------------------------------------------------------------------------
RECURSIVE FoldMinInt(_, _), FoldMaxInt(_, _)
FoldMinInt(is, acc) ==
  IF is = << >> THEN acc
  ELSE FoldMinInt(Tail(is), IF Head(is) < acc THEN Head(is) ELSE acc)
FoldMaxInt(is, acc) ==
  IF is = << >> THEN acc
  ELSE FoldMaxInt(Tail(is), IF Head(is) > acc THEN Head(is) ELSE acc)

\* (first: the same with the thresholds counted to the smaller size)
buildFallbackHintInclusive(feature) ==
  LET points == extractPoints(feature.geometry)
      name == getJapaneseName(feature.properties)
      lons == [i \in 1..Len(points) |-> points[i][1]]
      lats == [i \in 1..Len(points) |-> points[i][2]]
      minLat == FoldMinInt(lats, lats[1])
      maxLat == FoldMaxInt(lats, lats[1])
      minLon == FoldMinInt(lons, lons[1])
      maxLon == FoldMaxInt(lons, lons[1])
      \* (min + max) / 2 >= 0  iff  min + max >= 0
      latLabel == IF minLat + maxLat >= 0 THEN "north" ELSE "south"
      lonLabel == IF minLon + maxLon >= 0 THEN "east" ELSE "west"
      extentArea == Abs((maxLat - minLat) * (maxLon - minLon))
      sizeLabel == IF extentArea <= 20 THEN "small"
                   ELSE IF extentArea <= 80 THEN "medium" ELSE "large"
      shapeLabel == IF feature.geometry.type = "MultiPolygon"
                       /\ Len(feature.geometry.coordinates) > 1
                    THEN "fragmented" ELSE "contiguous"
  IN  IF Len(points) = 0
      THEN [summary |-> <<name, "preparing">>,
            main_hint |-> <<name, "generate an AI hint">>]
      ELSE [summary |-> <<name, latLabel, lonLabel, sizeLabel>>,
            main_hint |-> <<name, latLabel, lonLabel, shapeLabel, sizeLabel>>]
buildFallbackHint(feature) ==
  LET points == extractPoints(feature.geometry)
      name == getJapaneseName(feature.properties)
      lons == [i \in 1..Len(points) |-> points[i][1]]
      lats == [i \in 1..Len(points) |-> points[i][2]]
      minLat == FoldMinInt(lats, lats[1])
      maxLat == FoldMaxInt(lats, lats[1])
      minLon == FoldMinInt(lons, lons[1])
      maxLon == FoldMaxInt(lons, lons[1])
      \* (min + max) / 2 >= 0  iff  min + max >= 0
      latLabel == IF minLat + maxLat >= 0 THEN "north" ELSE "south"
      lonLabel == IF minLon + maxLon >= 0 THEN "east" ELSE "west"
      extentArea == Abs((maxLat - minLat) * (maxLon - minLon))
      sizeLabel == IF extentArea < 20 THEN "small"
                   ELSE IF extentArea < 80 THEN "medium" ELSE "large"
      shapeLabel == IF feature.geometry.type = "MultiPolygon"
                       /\ Len(feature.geometry.coordinates) > 1
                    THEN "fragmented" ELSE "contiguous"
  IN  IF Len(points) = 0
      THEN [summary |-> <<name, "preparing">>,
            main_hint |-> <<name, "generate an AI hint">>]
      ELSE [summary |-> <<name, latLabel, lonLabel, sizeLabel>>,
            main_hint |-> <<name, latLabel, lonLabel, shapeLabel, sizeLabel>>]

\* /緯度|経度|北緯|南緯|東経|西経|°/.test(value)
CoordinateTerms == {"latitude", "longitude", "north-lat", "south-lat",
                    "east-lon", "west-lon", "degree"}
isCoordinateHint(value) == \E i \in 1..Len(value) : value[i] \in CoordinateTerms

\* what the remote service can answer for a request about countryName
\* ("coordinate": the pattern in main_hint; "coordinate-summary": in summary
\* only; "no-text": no candidate text; "bad-json": text JSON.parse rejects;
\* "failed": fetch or res.json() rejects)
ResponseKinds == {"ok", "coordinate", "coordinate-summary", "no-text", "bad-json",
                  "failed"}
RemoteHint(countryName, kind) ==
  IF kind = "coordinate"
  THEN [summary |-> <<"about", countryName>>,
        main_hint |-> <<"about", countryName, "north-lat", "degree">>]
  ELSE IF kind = "coordinate-summary"
  THEN [summary |-> <<countryName, "latitude">>,
        main_hint |-> <<"about", countryName, "history">>]
  ELSE [summary |-> <<"about", countryName>>,
        main_hint |-> <<"about", countryName, "history">>]

\* ------------------------------------------------------------------------
\* State
\* ------------------------------------------------------------------------
VARIABLES
  variant,          \* which file runs: "px" = src/src/App.tsx, "viewBox" = part_001
  apiKey,           \* Boolean(import.meta.env.VITE_GEMINI_API_KEY)
  view,             \* useState: 'start' | 'quiz' | 'review'
  geoData,          \* useState: NULL or [type, features]
  pathData,         \* useMemo over geoData: the rendered outlines
  currentCountry,   \* useState: NULL, a feature, or UNDEF (features[0] of [])
  hint,             \* useState: NULL or [main_hint, summary]
  loading,          \* useState
  error,            \* useState: NULL or [message]
  feedback,         \* useState: NULL or [isCorrect, message]
  score,            \* useState
  selectedId,       \* useState: NULL or [id]
  isHintMinimized,  \* useState
  transform,        \* useState: [x, y, scale]
  pointers,         \* useRef: the Map, as its entries in insertion order
  lastCenter,       \* useRef: NULL or [x, y]
  lastDist,         \* useRef
  dragState,        \* useRef: [start, moved]
  suppressClick,    \* useRef
  geoFetch,         \* the mount effect's fetch: "pending" or "settled"
  hintReqs,         \* generateAIHint calls suspended at their await, oldest first
  raf,              \* the fit effect's pending animation frame: NULL or [target]
  user,             \* useState (src/src/App.tsx only): NULL or [uid]
  history,          \* useState (src/src/App.tsx only): the stored rounds, newest first
  writes,           \* addDoc calls whose promise is pending, oldest first
  clock             \* new Date(), as the number of rounds written so far

configVars == <<variant, apiKey>>
quizVars == <<view, geoData, pathData, currentCountry, hint, loading, error, feedback, score,
              selectedId, isHintMinimized, geoFetch, hintReqs, raf>>
gestureVars == <<pointers, lastCenter, lastDist, dragState, suppressClick>>
storeVars == <<user, history, writes, clock>>
progVars == <<configVars, quizVars, gestureVars, transform, storeVars>>

\* History of the gestures, kept beside the program's state to state the
\* properties about "the click that follows a tap" and "the clicks that
\* follow a drag"; no handler reads it.
VARIABLES
  lastGesture,      \* "none", or the class of the gesture in progress or last
                    \* completed: "tap" (one pointer, pressed with no other
                    \* pointer down, never more than 6 px from its press),
                    \* "drag" (one pointer, moved beyond that), "pinch",
                    \* "crowd" (a pointer moved while three or more were down)
  clicksSinceDrag,  \* region clicks since the last completed drag: "zero",
                    \* "one", or "untracked" (no drag yet, a pinch since, or
                    \* more clicks)
  lastSettled,      \* NULL, or the hint request that settled last and the
                    \* service's answer to it: [feature, kind]
  lastFit,          \* NULL, or the fit that ran last: the bounds it measured,
                    \* the container, the transform before and after it, and
                    \* whether the fit before it had the same bounds and
                    \* container but started from another transform:
                    \* [bounds, rect, before, after, again]
  lastWrite,        \* "none", or the handler that wrote the transform last:
                    \* "pan", "pinch", "wheel", "reset", "fit"
  dragFrom,         \* NULL, or where the single pointer now held became the
                    \* only one (by its press, or by the release of the other
                    \* pointer) if nothing but its own moves wrote the
                    \* transform since: its position then and the transform
                    \* then, [x, y, t]
  pinchReleased     \* a pointer was released while two or more were down and
                    \* no region click arrived since

gestureHist == <<lastGesture, clicksSinceDrag>>
logVars == <<lastSettled, lastFit>>
touchHist == <<lastWrite, dragFrom, pinchReleased>>
histVars == <<gestureHist, logVars, touchHist>>
vars == <<progVars, histVars>>

\* The React state a handler reads and writes, as one record, so that a
\* handler and the effects that follow its commit compose as functions.
Cur ==
  [view |-> view, geoData |-> geoData, pathData |-> pathData,
   currentCountry |-> currentCountry,
   hint |-> hint, loading |-> loading, error |-> error, feedback |-> feedback,
   score |-> score, selectedId |-> selectedId,
   isHintMinimized |-> isHintMinimized, geoFetch |-> geoFetch,
   hintReqs |-> hintReqs, raf |-> raf]

Commit(s) ==
  /\ view' = s.view
  /\ geoData' = s.geoData
  /\ pathData' = s.pathData
  /\ currentCountry' = s.currentCountry
  /\ hint' = s.hint
  /\ loading' = s.loading
  /\ error' = s.error
  /\ feedback' = s.feedback
  /\ score' = s.score
  /\ selectedId' = s.selectedId
  /\ isHintMinimized' = s.isHintMinimized
  /\ geoFetch' = s.geoFetch
  /\ hintReqs' = s.hintReqs
  /\ raf' = s.raf

Truthy(v) == v # NULL /\ v # UNDEF

\* ------------------------------------------------------------------------
\* Quiz controller
\* ------------------------------------------------------------------------
\* generateAIHint up to its first await.  With feature = undefined the
\* property access of line 411 throws before the try block: the promise is
\* rejected, neither the finally block nor any request is reached.
generateAIHint(s, key, feature) ==
  LET s1 == [s EXCEPT !.loading = TRUE, !.hint = NULL]
  IN  IF feature = UNDEF THEN s1
      ELSE IF ~key
      THEN [s1 EXCEPT !.hint = buildFallbackHint(feature), !.loading = FALSE]
      ELSE [s1 EXCEPT !.hintReqs = Append(s1.hintReqs, [feature |-> feature])]

\* the continuation of generateAIHint after its awaits, for the response kind
\* (first: the same with the pattern looked for in main_hint only)
settleHintTestsMainOnly(s, feature, kind) ==
  LET parsed == RemoteHint(getEnglishName(feature.properties), kind)
      s1 == IF kind \in {"failed", "bad-json"}
            THEN [s EXCEPT !.hint = buildFallbackHint(feature)]
            ELSE IF kind = "no-text" THEN s
            ELSE IF isCoordinateHint(parsed.main_hint)
            THEN [s EXCEPT !.hint = buildFallbackHint(feature)]
            ELSE [s EXCEPT !.hint = parsed]
  IN  [s1 EXCEPT !.loading = FALSE]
settleHint(s, feature, kind) ==
  LET parsed == RemoteHint(getEnglishName(feature.properties), kind)
      s1 == IF kind \in {"failed", "bad-json"}
            THEN [s EXCEPT !.hint = buildFallbackHint(feature)]
            ELSE IF kind = "no-text" THEN s
            ELSE IF isCoordinateHint(parsed.main_hint) \/ isCoordinateHint(parsed.summary)
            THEN [s EXCEPT !.hint = buildFallbackHint(feature)]
            ELSE [s EXCEPT !.hint = parsed]
  IN  [s1 EXCEPT !.loading = FALSE]

\* startNewQuestion; pick is 1 + Math.floor(Math.random() * features.length)
\* (first: the same without setIsHintMinimized(false))
startNewQuestionKeepsPanel(s, key, pick) ==
  IF s.geoData = NULL THEN s
  ELSE LET features == s.geoData.features
           random == IF pick \in 1..Len(features) THEN features[pick] ELSE UNDEF
       IN  generateAIHint([s EXCEPT !.currentCountry = random,
                                    !.feedback = NULL,
                                    !.selectedId = NULL], key, random)
startNewQuestion(s, key, pick) ==
  IF s.geoData = NULL THEN s
  ELSE LET features == s.geoData.features
           random == IF pick \in 1..Len(features) THEN features[pick] ELSE UNDEF
       IN  generateAIHint([s EXCEPT !.currentCountry = random,
                                    !.feedback = NULL,
                                    !.selectedId = NULL,
                                    !.isHintMinimized = FALSE], key, random)

\* the values of 1 + Math.floor(Math.random() * features.length); features[0]
\* of an empty array is undefined
PicksOf(features) == IF features = << >> THEN {1} ELSE 1..Len(features)
Picks(s) == IF s.geoData = NULL THEN {1} ELSE PicksOf(s.geoData.features)

\* the effect of lines 464-468, run after a commit that changed one of its
\* dependencies [view, geoData, currentCountry, startNewQuestion]
autoStartEffect(old, s, key, pick) ==
  IF /\ <<old.view, old.geoData, old.currentCountry>>
          # <<s.view, s.geoData, s.currentCountry>>
     /\ s.view = "quiz" /\ s.geoData # NULL /\ ~Truthy(s.currentCountry)
  THEN startNewQuestion(s, key, pick)
  ELSE s

\* the effect of lines 500-545, up to requestAnimationFrame: when one of
\* [feedback, currentCountry, pathData] changed, the cleanup cancels the
\* pending frame and the effect body may request a new one
\* (first: the same without the cleanup)
fitEffectKeepsFrame(old, s) ==
  IF <<old.feedback, old.currentCountry, old.geoData>>
       # <<s.feedback, s.currentCountry, s.geoData>>
  THEN [s EXCEPT !.raf = IF s.feedback # NULL /\ Truthy(s.currentCountry)
                         THEN [target |-> s.currentCountry]
                         ELSE s.raf]
  ELSE s
fitEffect(old, s) ==
  IF <<old.feedback, old.currentCountry, old.geoData>>
       # <<s.feedback, s.currentCountry, s.geoData>>
  THEN [s EXCEPT !.raf = IF s.feedback # NULL /\ Truthy(s.currentCountry)
                         THEN [target |-> s.currentCountry]
                         ELSE NULL]
  ELSE s

\* the effects that follow the commit of s (old is the previous commit)
Effects(old, s, key, pick) ==
  LET s1 == fitEffect(old, s)
      s2 == autoStartEffect(old, s1, key, pick)
  IN  fitEffect(s1, s2)

SelId(id) == [id |-> id]

\* handleCountryClick after its guards (lines 476-489)
\* (the same with the award given whether or not the answer is correct, and
\* without setSelectedId)
acceptSelectionScoresAlways(s, id, name) ==
  LET correctName == getJapaneseName(s.currentCountry.properties)
      targetId == getCountryId(s.currentCountry.properties)
      isCorrect == (id = targetId)
  IN  [s EXCEPT !.selectedId = SelId(id),
                !.feedback = [isCorrect |-> isCorrect,
                              message |-> IF isCorrect THEN <<"correct">>
                                          ELSE <<"wrong", name, correctName>>],
                !.score = s.score + ScoreAward]
acceptSelectionLeavesSelectedId(s, id, name) ==
  LET correctName == getJapaneseName(s.currentCountry.properties)
      targetId == getCountryId(s.currentCountry.properties)
      isCorrect == (id = targetId)
  IN  [s EXCEPT !.feedback = [isCorrect |-> isCorrect,
                              message |-> IF isCorrect THEN <<"correct">>
                                          ELSE <<"wrong", name, correctName>>],
                !.score = IF isCorrect THEN s.score + ScoreAward ELSE s.score]
acceptSelection(s, id, name) ==
  LET correctName == getJapaneseName(s.currentCountry.properties)
      targetId == getCountryId(s.currentCountry.properties)
      isCorrect == (id = targetId)
  IN  [s EXCEPT !.selectedId = SelId(id),
                !.feedback = [isCorrect |-> isCorrect,
                              message |-> IF isCorrect THEN <<"correct">>
                                          ELSE <<"wrong", name, correctName>>],
                !.score = IF isCorrect THEN s.score + ScoreAward ELSE s.score]

\* the first guard of handleCountryClick (line 471)
\* (the same without the pointer count, and without the feedback test)
clickGuardIgnoresPointers(s, pts) ==
  ~(s.feedback # NULL \/ s.loading \/ ~Truthy(s.currentCountry))
clickGuardIgnoresFeedback(s, pts) ==
  ~(s.loading \/ Len(pts) > 1 \/ ~Truthy(s.currentCountry))
clickGuard(s, pts) ==
  ~(s.feedback # NULL \/ s.loading \/ Len(pts) > 1 \/ ~Truthy(s.currentCountry))

\* ------------------------------------------------------------------------
\* Environment: the inputs the events are drawn from
\* ------------------------------------------------------------------------
\* bounds of the exploration
MaxCorrect == 2      \* correct answers after which no further answer is explored
MaxInFlight == 2     \* hint requests outstanding at once
MaxPan == 8          \* |x|, |y| of the translation a pan or zoom may leave
MaxWrites == 2       \* rounds handed to the history store

PointerIds == {1, 2}
\* Pointer positions.  Two points 10 px apart: a press and release in place
\* is a tap, a move between the points exceeds the 6 px threshold.
TapPositions == {<<0, 0>>}
DragPositions == {<<0, 0>>, <<6, 8>>}
\* wheel exponents k (zoomFactor = 2^k): the two deltas that over- and
\* underflow Math.exp, and one notch out
ExtremeWheel == {-2000, 2000}
NotchWheel == {-1}
\* mapRef.current.getBoundingClientRect(): the layer is `absolute inset-0`
\* of a `fixed inset-0` root, so left = top = 0
Rects == {[left |-> 0, top |-> 0, width |-> 800, height |-> 400],
          [left |-> 0, top |-> 0, width |-> 400, height |-> 400]}
\* what the geometry source may deliver
RawCollections == {<<F_JPN>>, <<F_NONAME, F_POINT, F_NOGEOM>>,
                   <<F_JPN, F_NONAME, F_VOID>>}

InRange(t) == RLe(RAbs(t.x), R(MaxPan)) /\ RLe(RAbs(t.y), R(MaxPan))

\* ------------------------------------------------------------------------
\* Init: the component after its first render and its mount effects
\* (fetchGeoData has set loading and is suspended at its fetch)
\* ------------------------------------------------------------------------
Init ==
  /\ variant \in Variants
  /\ apiKey \in BOOLEAN
  /\ view = "start"
  /\ geoData = NULL
  /\ pathData = PathDataOf(NULL)
  /\ currentCountry = NULL
  /\ hint = NULL
  /\ loading = TRUE
  /\ error = NULL
  /\ feedback = NULL
  /\ score = 0
  /\ selectedId = NULL
  /\ isHintMinimized = FALSE
  /\ transform = resetTransform(variant)
  /\ pointers = << >>
  /\ lastCenter = NULL
  /\ lastDist = R(0)
  /\ dragState = [start |-> NULL, moved |-> FALSE]
  /\ suppressClick = FALSE
  /\ geoFetch = "pending"
  /\ hintReqs = << >>
  /\ raf = NULL
  /\ user = NULL
  /\ history = << >>
  /\ writes = << >>
  /\ clock = 0
  /\ lastGesture = "none"
  /\ clicksSinceDrag = "untracked"
  /\ lastSettled = NULL
  /\ lastFit = NULL
  /\ lastWrite = "none"
  /\ dragFrom = NULL
  /\ pinchReleased = FALSE

\* ------------------------------------------------------------------------
\* Viewport engine: the event handlers
\* ------------------------------------------------------------------------
\* The map layer is covered by the start/archive screen unless view = 'quiz';
\* a captured pointer keeps delivering its move/up/cancel events.
MapReachable == view = "quiz"

\* (first: the same with the drag state left alone by a second pointer)
handlePointerDownKeepsTap(id, x, y) ==
  /\ MapReachable
  /\ ~MapHas(pointers, id)
  /\ LET pts == MapSet(pointers, id, x, y)
     IN  /\ pointers' = pts
         /\ lastCenter' = getCenter(pts)
         /\ lastDist' = IF Len(pts) = 2 THEN getDist(pts) ELSE lastDist
         /\ dragState' = IF Len(pts) = 1
                         THEN [start |-> Pt(R(x), R(y)), moved |-> FALSE]
                         ELSE dragState
  /\ UNCHANGED <<configVars, storeVars, quizVars, transform, suppressClick>>
handlePointerDown(id, x, y) ==
  /\ MapReachable
  /\ ~MapHas(pointers, id)
  /\ LET pts == MapSet(pointers, id, x, y)
     IN  /\ pointers' = pts
         /\ lastCenter' = getCenter(pts)
         /\ lastDist' = IF Len(pts) = 2 THEN getDist(pts) ELSE lastDist
         /\ dragState' = IF Len(pts) = 1
                         THEN [start |-> Pt(R(x), R(y)), moved |-> FALSE]
                         ELSE [dragState EXCEPT !.moved = TRUE]
  /\ UNCHANGED <<configVars, storeVars, quizVars, transform, suppressClick>>

\* movedDist > 6 for the drag start `start` and the event position (x, y)
\* (first: the same with the threshold itself counted as movement)
ExceedsThresholdInclusive(start, x, y) ==
  Hypot(x - start.x[1], y - start.y[1]) >= MovedThreshold
ExceedsThreshold(start, x, y) ==
  Hypot(x - start.x[1], y - start.y[1]) > MovedThreshold

\* (first: the same with the pinch branch taken for two or more pointers,
\* and with the baseline stored only after a rescale)
handlePointerMovePinchesFromTwo(id, x, y, rect) ==
  IF ~MapHas(pointers, id) \/ lastCenter = NULL
  THEN UNCHANGED progVars
  ELSE
    LET pts == MapSet(pointers, id, x, y)
        center == getCenter(pts)
        dist == getDist(pts)
    IN  /\ pointers' = pts
        /\ lastCenter' = center
        /\ IF Len(pts) = 1
           THEN /\ dragState' =
                     IF dragState.start # NULL /\ ~dragState.moved
                        /\ ExceedsThreshold(dragState.start, x, y)
                     THEN [dragState EXCEPT !.moved = TRUE]
                     ELSE dragState
                /\ transform' = PanBy(transform, RSub(center.x, lastCenter.x),
                                      RSub(center.y, lastCenter.y))
                /\ lastDist' = lastDist
           ELSE /\ dragState' = [dragState EXCEPT !.moved = TRUE]
                /\ transform' =
                     IF RLt(R(0), lastDist)
                     THEN ZoomStep(variant, transform, transform,
                                   RSub(center.x, R(rect.left)),
                                   RSub(center.y, R(rect.top)),
                                   rect, RDiv(dist, lastDist))
                     ELSE transform
                /\ lastDist' = dist
        /\ UNCHANGED <<configVars, storeVars, quizVars, suppressClick>>
handlePointerMoveKeepsZeroBaseline(id, x, y, rect) ==
  IF ~MapHas(pointers, id) \/ lastCenter = NULL
  THEN UNCHANGED progVars
  ELSE
    LET pts == MapSet(pointers, id, x, y)
        center == getCenter(pts)
        dist == getDist(pts)
    IN  /\ pointers' = pts
        /\ lastCenter' = center
        /\ IF Len(pts) = 1
           THEN /\ dragState' =
                     IF dragState.start # NULL /\ ~dragState.moved
                        /\ ExceedsThreshold(dragState.start, x, y)
                     THEN [dragState EXCEPT !.moved = TRUE]
                     ELSE dragState
                /\ transform' = PanBy(transform, RSub(center.x, lastCenter.x),
                                      RSub(center.y, lastCenter.y))
                /\ lastDist' = lastDist
           ELSE IF Len(pts) = 2
           THEN /\ dragState' = [dragState EXCEPT !.moved = TRUE]
                /\ transform' =
                     IF RLt(R(0), lastDist)
                     THEN ZoomStep(variant, transform, transform,
                                   RSub(center.x, R(rect.left)),
                                   RSub(center.y, R(rect.top)),
                                   rect, RDiv(dist, lastDist))
                     ELSE transform
                /\ lastDist' = IF RLt(R(0), lastDist) THEN dist ELSE lastDist
           ELSE UNCHANGED <<dragState, transform, lastDist>>
        /\ UNCHANGED <<configVars, storeVars, quizVars, suppressClick>>
handlePointerMove(id, x, y, rect) ==
  IF ~MapHas(pointers, id) \/ lastCenter = NULL
  THEN UNCHANGED progVars
  ELSE
    LET pts == MapSet(pointers, id, x, y)
        center == getCenter(pts)
        dist == getDist(pts)
    IN  /\ pointers' = pts
        /\ lastCenter' = center
        /\ IF Len(pts) = 1
           THEN /\ dragState' =
                     IF dragState.start # NULL /\ ~dragState.moved
                        /\ ExceedsThreshold(dragState.start, x, y)
                     THEN [dragState EXCEPT !.moved = TRUE]
                     ELSE dragState
                /\ transform' = PanBy(transform, RSub(center.x, lastCenter.x),
                                      RSub(center.y, lastCenter.y))
                /\ lastDist' = lastDist
           ELSE IF Len(pts) = 2
           THEN /\ dragState' = [dragState EXCEPT !.moved = TRUE]
                /\ transform' =
                     IF RLt(R(0), lastDist)
                     THEN ZoomStep(variant, transform, transform,
                                   RSub(center.x, R(rect.left)),
                                   RSub(center.y, R(rect.top)),
                                   rect, RDiv(dist, lastDist))
                     ELSE transform
                /\ lastDist' = dist
           ELSE UNCHANGED <<dragState, transform, lastDist>>
        /\ UNCHANGED <<configVars, storeVars, quizVars, suppressClick>>

\* onPointerUp and onPointerCancel
\* (first: the same with lastCenter kept when the last pointer goes)
handlePointerUpKeepsCenter(id) ==
  /\ MapHas(pointers, id)
  /\ LET pts == MapDelete(pointers, id)
     IN  /\ pointers' = pts
         /\ suppressClick' = IF dragState.moved THEN TRUE ELSE suppressClick
         /\ lastCenter' = IF Len(pts) = 1 THEN getCenter(pts) ELSE lastCenter
         /\ dragState' = IF Len(pts) = 0 THEN [start |-> NULL, moved |-> FALSE]
                         ELSE IF Len(pts) = 1
                         THEN [start |-> getCenter(pts), moved |-> FALSE]
                         ELSE dragState
  /\ UNCHANGED <<configVars, storeVars, quizVars, transform, lastDist>>
handlePointerUp(id) ==
  /\ MapHas(pointers, id)
  /\ LET pts == MapDelete(pointers, id)
     IN  /\ pointers' = pts
         /\ suppressClick' = IF dragState.moved THEN TRUE ELSE suppressClick
         /\ lastCenter' = IF Len(pts) = 1 THEN getCenter(pts)
                          ELSE IF Len(pts) = 0 THEN NULL ELSE lastCenter
         /\ dragState' = IF Len(pts) = 0 THEN [start |-> NULL, moved |-> FALSE]
                         ELSE IF Len(pts) = 1
                         THEN [start |-> getCenter(pts), moved |-> FALSE]
                         ELSE dragState
  /\ UNCHANGED <<configVars, storeVars, quizVars, transform, lastDist>>

handleWheel(x, y, k, rect) ==
  /\ MapReachable
  /\ transform' = ZoomStep(variant, transform, transform,
                           R(x - rect.left), R(y - rect.top), rect, zoomFactorOf(k))
  /\ UNCHANGED <<configVars, storeVars, quizVars, gestureVars>>

\* two wheel events handled before the component renders again: both
\* handlers belong to the same render and read its transform, the two
\* updaters are queued and applied one after the other
handleWheelQueued(x1, y1, k1, x2, y2, k2, rect) ==
  /\ MapReachable
  /\ LET first == ZoomStep(variant, transform, transform,
                           R(x1 - rect.left), R(y1 - rect.top), rect, zoomFactorOf(k1))
     IN  transform' = ZoomStep(variant, first, transform,
                               R(x2 - rect.left), R(y2 - rect.top), rect, zoomFactorOf(k2))
  /\ UNCHANGED <<configVars, storeVars, quizVars, gestureVars>>

\* (first: the same with the scale in force kept)
resetViewKeepsScale ==
  /\ MapReachable
  /\ transform' = [transform EXCEPT !.x = R(0), !.y = R(0)]
  /\ UNCHANGED <<configVars, storeVars, quizVars, gestureVars>>
resetView ==
  /\ MapReachable
  /\ transform' = resetTransform(variant)
  /\ UNCHANGED <<configVars, storeVars, quizVars, gestureVars>>

\* ------------------------------------------------------------------------
\* Quiz controller: events.  Every event commits its state updates and runs
\* the effects that follow the commit.
\* ------------------------------------------------------------------------
\* fetchGeoData resumes with a parsed collection
GeoFetchOk(raw, pick) ==
  /\ geoFetch = "pending"
  /\ LET valid == FilterValid(variant, raw)
         data == [type |-> "FeatureCollection", features |-> valid]
         s == [Cur EXCEPT !.geoData = data,
                          !.pathData = PathDataOf(data),
                          !.loading = FALSE,
                          !.geoFetch = "settled"]
     IN  Commit(Effects(Cur, s, apiKey, pick))
  /\ UNCHANGED <<configVars, storeVars, gestureVars, transform>>

\* fetchGeoData resumes in its catch block (network error, !res.ok, bad JSON)
\* (first: the same with an empty collection stored beside the error)
GeoFetchFailStoresEmpty ==
  /\ geoFetch = "pending"
  /\ LET data == [type |-> "FeatureCollection", features |-> << >>]
         s == [Cur EXCEPT !.error = [message |-> "geo-fetch-failed"],
                          !.geoData = data,
                          !.pathData = PathDataOf(data),
                          !.loading = FALSE,
                          !.geoFetch = "settled"]
     IN  Commit(Effects(Cur, s, apiKey, 1))
  /\ UNCHANGED <<configVars, storeVars, gestureVars, transform>>
GeoFetchFail ==
  /\ geoFetch = "pending"
  /\ LET s == [Cur EXCEPT !.error = [message |-> "geo-fetch-failed"],
                          !.loading = FALSE,
                          !.geoFetch = "settled"]
     IN  Commit(Effects(Cur, s, apiKey, 1))
  /\ UNCHANGED <<configVars, storeVars, gestureVars, transform>>

\* START GAME onClick: setView('quiz'); startNewQuestion()
StartGame(pick, pick2) ==
  /\ view = "start"
  /\ LET s == startNewQuestion([Cur EXCEPT !.view = "quiz"], apiKey, pick)
     IN  Commit(Effects(Cur, s, apiKey, pick2))
  /\ UNCHANGED <<configVars, storeVars, gestureVars, transform>>

\* the Menu button of the navigation overlay and the close button of the log
OpenMenu ==
  /\ view \in {"quiz", "review"}
  /\ Commit(Effects(Cur, [Cur EXCEPT !.view = "start"], apiKey, 1))
  /\ UNCHANGED <<configVars, storeVars, gestureVars, transform>>

\* ARCHIVE (src/src/App.tsx only)
OpenArchive ==
  /\ variant = "px"
  /\ view = "start"
  /\ Commit(Effects(Cur, [Cur EXCEPT !.view = "review"], apiKey, 1))
  /\ UNCHANGED <<configVars, storeVars, gestureVars, transform>>

\* NEXT CHALLENGE, rendered when view = 'quiz', not loading, no error, feedback
NextChallenge(pick, pick2) ==
  /\ view = "quiz" /\ ~loading /\ error = NULL /\ feedback # NULL
  /\ LET s == startNewQuestion(Cur, apiKey, pick)
     IN  Commit(Effects(Cur, s, apiKey, pick2))
  /\ UNCHANGED <<configVars, storeVars, gestureVars, transform>>

\* the header of the hint panel: !feedback && setIsHintMinimized(!isHintMinimized)
ToggleHintPanel ==
  /\ view = "quiz"
  /\ Commit(IF feedback = NULL
            THEN [Cur EXCEPT !.isHintMinimized = ~isHintMinimized]
            ELSE Cur)
  /\ UNCHANGED <<configVars, storeVars, gestureVars, transform>>

\* a suspended generateAIHint call resumes with the service's answer
HintSettle(i, kind) ==
  /\ i \in 1..Len(hintReqs)
  /\ LET req == hintReqs[i]
         rest == [j \in 1..(Len(hintReqs) - 1) |->
                    IF j < i THEN hintReqs[j] ELSE hintReqs[j + 1]]
         s == settleHint([Cur EXCEPT !.hintReqs = rest], req.feature, kind)
     IN  Commit(Effects(Cur, s, apiKey, 1))
  /\ UNCHANGED <<configVars, storeVars, gestureVars, transform>>

\* the document handleCountryClick hands to addDoc (lines 491-496); hint is
\* the hint of the render the handler belongs to, '' the empty text
historyDoc(s, isCorrect, timestamp) ==
  [countryName |-> getJapaneseName(s.currentCountry.properties),
   isCorrect |-> isCorrect,
   hintText |-> IF s.hint = NULL THEN << >> ELSE s.hint.main_hint,
   timestamp |-> timestamp]

\* `if (user)` of line 490; src/unnamed/part_001 has no history store
writesHistory(v, usr) == v = "px" /\ usr # NULL

\* onClick of the rendered path number p: handleCountryClick(path.id, path.name)
handleCountryClick(p) ==
  /\ view = "quiz"
  /\ p \in 1..Len(pathData)
  /\ LET path == pathData[p]
         accepted == acceptSelection(Cur, path.id, path.name)
     IN  IF ~clickGuard(Cur, pointers)
         THEN UNCHANGED <<quizVars, suppressClick, writes, clock>>
         ELSE IF suppressClick
         THEN /\ suppressClick' = FALSE
              /\ UNCHANGED <<quizVars, writes, clock>>
         ELSE /\ Commit(Effects(Cur, accepted, apiKey, 1))
              /\ UNCHANGED suppressClick
              /\ IF writesHistory(variant, user)
                 THEN /\ writes' = Append(writes,
                                          historyDoc(Cur, accepted.feedback.isCorrect, clock))
                      /\ clock' = clock + 1
                 ELSE UNCHANGED <<writes, clock>>
  /\ UNCHANGED <<configVars, user, history, pointers, lastCenter, lastDist, dragState,
                 transform>>

\* onAuthStateChanged delivers the signed-in user (src/src/App.tsx lines
\* 218-237); the effect of lines 269-283 subscribes to the user's history,
\* which holds no round yet
AuthStateChanged ==
  /\ variant = "px" /\ user = NULL
  /\ user' = [uid |-> "u1"]
  /\ UNCHANGED <<configVars, quizVars, gestureVars, transform, history, writes, clock>>

SeqWithout(q, i) ==
  [j \in 1..(Len(q) - 1) |-> IF j < i THEN q[j] ELSE q[j + 1]]

\* docs.sort((a, b) => b.timestamp - a.timestamp): doc into a sequence that
\* is sorted newest first
RECURSIVE InsertNewestFirst(_, _)
InsertNewestFirst(docs, doc) ==
  IF docs = << >> THEN <<doc>>
  ELSE IF doc.timestamp >= Head(docs).timestamp THEN <<doc>> \o docs
  ELSE <<Head(docs)>> \o InsertNewestFirst(Tail(docs), doc)

\* the promise of the pending addDoc number i is fulfilled; the snapshot
\* listener of lines 272-282 stores the collection, newest round first
WriteOk(i) ==
  /\ i \in 1..Len(writes)
  /\ writes' = SeqWithout(writes, i)
  /\ history' = InsertNewestFirst(history, writes[i])
  /\ UNCHANGED <<configVars, quizVars, gestureVars, transform, user, clock>>

\* the promise of the pending addDoc number i is rejected:
\* .catch((err) => console.error('Error saving history:', err))
\* (first: the same with a handler that takes the selection back)
WriteFailRevertsSelection(i) ==
  /\ i \in 1..Len(writes)
  /\ writes' = SeqWithout(writes, i)
  /\ feedback' = NULL /\ selectedId' = NULL
  /\ UNCHANGED <<configVars, gestureVars, transform, user, history, clock,
                 view, geoData, pathData, currentCountry, hint, loading, error, score,
                 isHintMinimized, geoFetch, hintReqs, raf>>
WriteFail(i) ==
  /\ i \in 1..Len(writes)
  /\ writes' = SeqWithout(writes, i)
  /\ UNCHANGED <<configVars, quizVars, gestureVars, transform, user, history, clock>>

\* the animation frame requested by the fit effect
\* (first: the same with a fit that never lowers the scale in force)
RunFitNeverZoomsOut(rect) ==
  /\ raf # NULL
  /\ raf' = NULL
  /\ LET bounds == MeasureBounds(pathData, raf.target)
         fit == FitTransform(variant, bounds, rect.width, rect.height)
     IN  transform' = IF bounds = NULL THEN transform
                      ELSE [fit EXCEPT !.scale = RMax(fit.scale, transform.scale)]
  /\ UNCHANGED <<configVars, storeVars, gestureVars, view, geoData, pathData, currentCountry,
                 hint, loading,
                 error, feedback, score, selectedId, isHintMinimized, geoFetch, hintReqs>>
RunFit(rect) ==
  /\ raf # NULL
  /\ raf' = NULL
  /\ LET bounds == MeasureBounds(pathData, raf.target)
     IN  transform' = IF bounds = NULL THEN transform
                      ELSE FitTransform(variant, bounds, rect.width, rect.height)
  /\ UNCHANGED <<configVars, storeVars, gestureVars, view, geoData, pathData, currentCountry,
                 hint, loading,
                 error, feedback, score, selectedId, isHintMinimized, geoFetch, hintReqs>>

\* ------------------------------------------------------------------------
\* The history variables, as each event updates them
\* ------------------------------------------------------------------------
ObserveDown ==
  /\ UNCHANGED <<logVars, touchHist>>
  /\ lastGesture' = IF pointers = << >> THEN "tap" ELSE "pinch"
  /\ clicksSinceDrag' = IF dragState'.moved THEN "untracked" ELSE clicksSinceDrag

ObserveMove ==
  /\ UNCHANGED <<logVars, touchHist>>
  /\ lastGesture' = IF Len(pointers) >= 3 /\ pointers' # pointers THEN "crowd"
                    ELSE IF lastGesture = "tap" /\ dragState'.moved THEN "drag"
                    ELSE lastGesture
  /\ clicksSinceDrag' = IF dragState'.moved THEN "untracked" ELSE clicksSinceDrag

ObserveUp ==
  /\ UNCHANGED <<lastGesture, logVars, touchHist>>
  /\ clicksSinceDrag' = IF pointers' = << >> /\ lastGesture = "drag" THEN "zero"
                        ELSE clicksSinceDrag

ObserveClick ==
  /\ UNCHANGED <<logVars, touchHist>>
  /\ lastGesture' = IF pointers = << >> THEN "none" ELSE lastGesture
  /\ clicksSinceDrag' = IF clicksSinceDrag = "zero" THEN "one" ELSE "untracked"

\* a hint request for feature settled with the answer kind
ObserveSettle(feature, kind) ==
  /\ lastSettled' = [feature |-> feature, kind |-> kind]
  /\ UNCHANGED <<gestureHist, lastFit, touchHist>>

\* the animation frame ran on a container of size rect and, if it measured
\* bounds, applied a fit
ObserveFit(rect) ==
  /\ LET bounds == MeasureBounds(pathData, raf.target)
     IN  lastFit' =
           IF bounds = NULL THEN lastFit
           ELSE [bounds |-> bounds, rect |-> rect,
                 before |-> transform, after |-> transform',
                 again |-> /\ lastFit # NULL
                           /\ lastFit.bounds = bounds /\ lastFit.rect = rect
                           /\ lastFit.before # transform]
  /\ UNCHANGED <<gestureHist, lastSettled, touchHist>>

\* the viewport's history after the event of the given kind: "down", "move"
\* (of a pointer that is held), "up", "wheel", "reset", "fit", "click", or
\* "other" for the events that touch neither the pointers nor the transform
ObserveView(event) ==
  /\ lastWrite' =
       IF event \in {"wheel", "reset"} THEN event
       ELSE IF event = "fit" /\ MeasureBounds(pathData, raf.target) # NULL THEN "fit"
       ELSE IF event = "move" /\ Len(pointers) = 1 THEN "pan"
       ELSE IF event = "move" /\ Len(pointers) = 2 /\ RLt(R(0), lastDist) THEN "pinch"
       ELSE lastWrite
  /\ dragFrom' =
       IF event \in {"down", "up"}
       THEN IF Len(pointers') = 1
            THEN [x |-> pointers'[1].x, y |-> pointers'[1].y, t |-> transform]
            ELSE NULL
       ELSE IF event \in {"wheel", "reset", "fit"} \/ Len(pointers') # 1 THEN NULL
       ELSE dragFrom
  /\ pinchReleased' =
       IF event = "up" THEN (Len(pointers) >= 2 \/ pinchReleased)
       ELSE IF event = "click" THEN FALSE
       ELSE pinchReleased
  /\ UNCHANGED <<gestureHist, logVars>>

\* ------------------------------------------------------------------------
\* The program
\* ------------------------------------------------------------------------
\* The quiz events, with the collections and the service answers drawn from
\* raws and kinds.  A round is started while at most MaxInFlight hint
\* requests are outstanding, an answer is given up to MaxCorrect awards.
QuizNext(raws, kinds) ==
  \/ /\ \E raw \in raws : \E pick \in PicksOf(FilterValid(variant, raw)) :
          GeoFetchOk(raw, pick)
     /\ UNCHANGED histVars
  \/ GeoFetchFail /\ UNCHANGED histVars
  \/ /\ \E pick \in Picks(Cur) : StartGame(pick, pick)
     /\ Len(hintReqs') <= MaxInFlight
     /\ UNCHANGED histVars
  \/ OpenMenu /\ UNCHANGED histVars
  \/ OpenArchive /\ UNCHANGED histVars
  \/ /\ \E pick \in Picks(Cur) : NextChallenge(pick, pick)
     /\ Len(hintReqs') <= MaxInFlight
     /\ UNCHANGED histVars
  \/ ToggleHintPanel /\ UNCHANGED histVars
  \/ /\ \E i \in 1..Len(hintReqs), kind \in kinds : HintSettle(i, kind)
     /\ UNCHANGED histVars
  \/ /\ \E p \in 1..Len(pathData) : handleCountryClick(p)
     /\ score' <= MaxCorrect * ScoreAward
     /\ ObserveClick
  \/ /\ \E rect \in Rects : RunFit(rect)
     /\ UNCHANGED histVars

\* The viewport events, with pointers ids at positions and wheel exponents
\* ks.  A pan or zoom is explored while it leaves the translation within
\* MaxPan.
ViewNext(ids, positions, ks) ==
  \/ /\ \E id \in ids, pos \in positions : handlePointerDown(id, pos[1], pos[2])
     /\ ObserveDown
  \/ /\ \E id \in ids, pos \in positions, rect \in Rects :
          handlePointerMove(id, pos[1], pos[2], rect)
     /\ InRange(transform')
     /\ ObserveMove
  \/ /\ \E id \in ids : handlePointerUp(id)
     /\ ObserveUp
  \/ /\ \E pos \in positions, k \in ks, rect \in Rects :
          handleWheel(pos[1], pos[2], k, rect)
     /\ InRange(transform')
     /\ UNCHANGED histVars
  \/ resetView /\ UNCHANGED histVars

\* The whole program; pointers tap in place.
Next ==
  \/ QuizNext(RawCollections, ResponseKinds)
  \/ ViewNext(PointerIds, TapPositions, ExtremeWheel)

Spec == Init /\ [][Next]_vars

\* The viewport under drags and pinches, in a game on the collection of the
\* end-to-end test, with a hint service that answers well-formed hints.
InitView == Init /\ apiKey
NextView ==
  \/ GeoFetchOk(<<F_JPN>>, 1) /\ UNCHANGED histVars
  \/ /\ \E pick \in Picks(Cur) : StartGame(pick, pick)
     /\ Len(hintReqs') <= MaxInFlight
     /\ UNCHANGED histVars
  \/ /\ \E pick \in Picks(Cur) : NextChallenge(pick, pick)
     /\ Len(hintReqs') <= MaxInFlight
     /\ UNCHANGED histVars
  \/ /\ \E i \in 1..Len(hintReqs) : HintSettle(i, "ok")
     /\ UNCHANGED histVars
  \/ /\ \E p \in 1..Len(pathData) : handleCountryClick(p)
     /\ score' <= MaxCorrect * ScoreAward
     /\ ObserveClick
  \/ /\ \E rect \in Rects : RunFit(rect)
     /\ UNCHANGED histVars
  \/ ViewNext(PointerIds, DragPositions, ExtremeWheel)

SpecView == InitView /\ [][NextView]_vars

\* The zoom and pan algebra alone: the quiz view entered before the
\* collection arrives, under drags, pinches and wheel events of extreme
\* deltas, and wheel events of one notch out from a scale at either limit.
InitZoom == Init /\ ~apiKey
NextZoom ==
  \/ /\ \E pick \in Picks(Cur) : StartGame(pick, pick)
     /\ UNCHANGED histVars
  \/ ViewNext(PointerIds, DragPositions, ExtremeWheel)
  \/ /\ transform.scale \in {MinScale(variant), MaxScale}
     /\ \E pos \in DragPositions, k \in NotchWheel, rect \in Rects :
          handleWheel(pos[1], pos[2], k, rect)
     /\ InRange(transform')
     /\ UNCHANGED histVars

SpecZoom == InitZoom /\ [][NextZoom]_vars

\* The quiz controller alone (no gesture on the map), on collections that
\* exercise every clause of the loader's filter, with every answer of the hint
\* service; the hint request that settled last is recorded.
LoadCollections == {<<F_JPN>>,
                    <<F_GRL, F_KOS, F_NONAME, F_FJI>>,
                    <<F_POINT, F_NOGEOM, F_VOID, F_JPN>>,
                    << >>}
NextQuiz ==
  \/ /\ \E raw \in LoadCollections : \E pick \in PicksOf(FilterValid(variant, raw)) :
          GeoFetchOk(raw, pick)
     /\ UNCHANGED histVars
  \/ GeoFetchFail /\ UNCHANGED histVars
  \/ /\ \E pick \in Picks(Cur) : StartGame(pick, pick)
     /\ Len(hintReqs') <= MaxInFlight
     /\ UNCHANGED histVars
  \/ OpenMenu /\ UNCHANGED histVars
  \/ /\ \E pick \in Picks(Cur) : NextChallenge(pick, pick)
     /\ Len(hintReqs') <= MaxInFlight
     /\ UNCHANGED histVars
  \/ \E i \in 1..Len(hintReqs), kind \in ResponseKinds :
       HintSettle(i, kind) /\ ObserveSettle(hintReqs[i].feature, kind)
  \/ /\ \E p \in 1..Len(pathData) : handleCountryClick(p)
     /\ score' <= MaxCorrect * ScoreAward
     /\ ObserveClick
  \/ /\ \E rect \in Rects : RunFit(rect)
     /\ UNCHANGED histVars

SpecQuiz == Init /\ [][NextQuiz]_vars

\* Fit-to-region: rounds without a hint service on collections whose regions
\* fit unclamped, clamped at 20 and clamped at minScale, two of them sharing
\* the identifier -99; containers of aspect 2:1, 1:1 and 1:2; wheel events of
\* extreme deltas and resets between the fits; the fits that ran are logged.
FitCollections == {<<F_KOS, F_SOM>>, <<F_JPN, F_FJI, F_VOID>>}
FitRects == Rects \cup {[left |-> 0, top |-> 0, width |-> 400, height |-> 800]}
InitFit == Init /\ ~apiKey
NextFit ==
  \/ /\ \E raw \in FitCollections : \E pick \in PicksOf(FilterValid(variant, raw)) :
          GeoFetchOk(raw, pick)
     /\ UNCHANGED histVars
  \/ /\ \E pick \in Picks(Cur) : StartGame(pick, pick)
     /\ UNCHANGED histVars
  \/ /\ \E pick \in Picks(Cur) : NextChallenge(pick, pick)
     /\ UNCHANGED histVars
  \/ /\ \E p \in 1..Len(pathData) : handleCountryClick(p)
     /\ score' <= MaxCorrect * ScoreAward
     /\ ObserveClick
  \/ \E rect \in FitRects : RunFit(rect) /\ ObserveFit(rect)
  \/ /\ \E pos \in TapPositions, k \in ExtremeWheel, rect \in Rects :
          handleWheel(pos[1], pos[2], k, rect)
     /\ InRange(transform')
     /\ UNCHANGED histVars
  \/ resetView /\ UNCHANGED histVars

SpecFit == InitFit /\ [][NextFit]_vars

\* The history store: rounds on a collection of two regions, with a user
\* who signs in at any moment (src/src/App.tsx) and writes that succeed or
\* fail in any order; up to MaxWrites rounds are written.
NextHistory ==
  \/ AuthStateChanged /\ UNCHANGED histVars
  \/ /\ \E pick \in 1..2 : GeoFetchOk(<<F_JPN, F_FJI>>, pick)
     /\ UNCHANGED histVars
  \/ /\ \E pick \in Picks(Cur) : StartGame(pick, pick)
     /\ Len(hintReqs') <= MaxInFlight
     /\ UNCHANGED histVars
  \/ /\ \E pick \in Picks(Cur) : NextChallenge(pick, pick)
     /\ Len(hintReqs') <= MaxInFlight
     /\ UNCHANGED histVars
  \/ /\ \E i \in 1..Len(hintReqs), kind \in {"ok", "no-text"} : HintSettle(i, kind)
     /\ UNCHANGED histVars
  \/ /\ \E p \in 1..Len(pathData) : handleCountryClick(p)
     /\ score' <= MaxCorrect * ScoreAward
     /\ clock' <= MaxWrites
     /\ ObserveClick
  \/ /\ \E i \in 1..Len(writes) : WriteOk(i)
     /\ UNCHANGED histVars
  \/ /\ \E i \in 1..Len(writes) : WriteFail(i)
     /\ UNCHANGED histVars
  \/ /\ \E rect \in Rects : RunFit(rect)
     /\ UNCHANGED histVars

SpecHistory == Init /\ [][NextHistory]_vars

\* Touch input during a game: rounds without a hint service on the
\* collection of the end-to-end test, under presses, moves and releases of
\* two pointers, wheel events of extreme deltas, resets and fits; the
\* viewport's history is recorded.
InitTouch == Init /\ ~apiKey
NextTouch ==
  \/ GeoFetchOk(<<F_JPN>>, 1) /\ ObserveView("other")
  \/ /\ \E pick \in Picks(Cur) : StartGame(pick, pick)
     /\ ObserveView("other")
  \/ /\ \E pick \in Picks(Cur) : NextChallenge(pick, pick)
     /\ ObserveView("other")
  \/ /\ \E p \in 1..Len(pathData) : handleCountryClick(p)
     /\ score' <= MaxCorrect * ScoreAward
     /\ ObserveView("click")
  \/ /\ \E rect \in Rects : RunFit(rect)
     /\ ObserveView("fit")
  \/ /\ \E id \in PointerIds, pos \in DragPositions : handlePointerDown(id, pos[1], pos[2])
     /\ ObserveView("down")
  \/ \E id \in PointerIds, pos \in DragPositions, rect \in Rects :
       /\ handlePointerMove(id, pos[1], pos[2], rect)
       /\ InRange(transform')
       /\ ObserveView(IF MapHas(pointers, id) THEN "move" ELSE "other")
  \/ /\ \E id \in PointerIds : handlePointerUp(id)
     /\ ObserveView("up")
  \/ /\ \E pos \in TapPositions, k \in ExtremeWheel, rect \in Rects :
          handleWheel(pos[1], pos[2], k, rect)
     /\ InRange(transform')
     /\ ObserveView("wheel")
  \/ resetView /\ ObserveView("reset")

SpecTouch == InitTouch /\ [][NextTouch]_vars

\* Three fingers on the map: the quiz view entered before the collection
\* arrives, under presses, moves and releases of three pointers, wheel events
\* and resets.
NextThree ==
  \/ /\ \E pick \in Picks(Cur) : StartGame(pick, pick)
     /\ UNCHANGED histVars
  \/ ViewNext(PointerIds \cup {3}, DragPositions, ExtremeWheel)

SpecThree == InitZoom /\ [][NextThree]_vars

\* One finger on the map: presses, moves and releases of one pointer among
\* three positions 6, 8 and 10 px apart (on and beyond the threshold of 6
\* px), wheel events and resets.
NextDrag ==
  \/ /\ \E pick \in Picks(Cur) : StartGame(pick, pick)
     /\ UNCHANGED histVars
  \/ ViewNext({1}, DragPositions \cup {<<6, 0>>}, ExtremeWheel)

SpecDrag == InitZoom /\ [][NextDrag]_vars

\* Regions as the geometry source may deliver them: the box with the corner
\* (lon, lat), w degrees wide and h degrees high, as a Polygon or a
\* MultiPolygon of one part (the box) or two (its two triangles), or of as
\* many parts without any point.
BoxRegion(type, parts, filled, lon, lat, w, h) ==
  LET box == <<<<lon, lat>>, <<lon + w, lat>>, <<lon + w, lat + h>>,
               <<lon, lat + h>>, <<lon, lat>>>>
      lower == <<<<lon, lat>>, <<lon + w, lat>>, <<lon, lat + h>>, <<lon, lat>>>>
      upper == <<<<lon + w, lat + h>>, <<lon + w, lat>>, <<lon, lat + h>>,
                 <<lon + w, lat + h>>>>
      rings == IF parts = 1 THEN <<box>> ELSE <<lower, upper>>
  IN  [geometry |->
         [type |-> type,
          coordinates |->
            IF type = "Polygon" THEN (IF filled THEN rings ELSE << >>)
            ELSE [i \in 1..parts |-> IF filled THEN <<rings[i]>> ELSE << >>]],
       properties |-> Props("Box", "", "BOX", "", "", "")]

\* corners at the limits of the valid range and on either side of longitude
\* and latitude 0; sizes on either side of the areas 20 and 80
BoxRegions ==
  {BoxRegion(type, parts, filled, lon, lat, w, h) :
     type \in {"Polygon", "MultiPolygon"}, parts \in {1, 2}, filled \in BOOLEAN,
     lon \in {-180, -10, -2, 175}, lat \in {-90, -30, -2, 70},
     w \in {4, 5}, h \in {4, 5, 16, 20}}

\* Rounds without a hint service on a collection of one such region, or on
\* the collection of two regions that share the identifier -99, one without
\* points between them, and one of two parts: the loader, the path builder
\* and the fallback hint on every region of BoxRegions.
NextRegions ==
  \/ /\ \E raw \in {<<f>> : f \in BoxRegions} \cup {<<F_KOS, F_VOID, F_SOM, F_FJI>>} :
          \E pick \in PicksOf(FilterValid(variant, raw)) : GeoFetchOk(raw, pick)
     /\ UNCHANGED histVars
  \/ /\ \E pick \in Picks(Cur) : StartGame(pick, pick)
     /\ UNCHANGED histVars
  \/ /\ \E pick \in Picks(Cur) : NextChallenge(pick, pick)
     /\ UNCHANGED histVars
  \/ /\ \E p \in 1..Len(pathData) : handleCountryClick(p)
     /\ score' <= MaxCorrect * ScoreAward
     /\ ObserveClick
  \/ /\ \E rect \in Rects : RunFit(rect)
     /\ UNCHANGED histVars

SpecRegions == InitFit /\ [][NextRegions]_vars

\* Wheel events that outrun the renderer: the quiz view entered before the
\* collection arrives, under drags, pinches, single wheel events, and pairs
\* of wheel events at two cursor positions handled within one render.
NextQueued ==
  \/ /\ \E pick \in Picks(Cur) : StartGame(pick, pick)
     /\ UNCHANGED histVars
  \/ ViewNext(PointerIds, DragPositions, ExtremeWheel)
  \/ /\ \E pos1 \in DragPositions, pos2 \in DragPositions,
           k1 \in ExtremeWheel, k2 \in ExtremeWheel, rect \in Rects :
          handleWheelQueued(pos1[1], pos1[2], k1, pos2[1], pos2[2], k2, rect)
     /\ InRange(transform')
     /\ UNCHANGED histVars

SpecQueued == InitZoom /\ [][NextQueued]_vars

\* ------------------------------------------------------------------------
\* Properties
\* ------------------------------------------------------------------------
REq(a, b) == a[1] * b[2] = b[1] * a[2]

\* The content-space coordinate drawn at the viewport-local coordinate c of
\* one axis; extent and base are the container's and the map's size along
\* that axis.  src/src/App.tsx draws the layer under
\* `translate(x, y) scale(s)` with origin 0 0.  src/unnamed/part_001 draws an
\* <svg> that fills the container, with the viewBox `-x/s -y/s 800/s 400/s`
\* and no preserveAspectRatio attribute: the viewBox is scaled uniformly by
\* u = min(W / (800/s), H / (400/s)) and centred in the container.
contentCoord(v, c, extent, base, t, scale, rect) ==
  IF v = "px" THEN RDiv(RSub(c, t), scale)
  ELSE LET u == RMin(RDiv(R(rect.width), RDiv(R(MAP_WIDTH), scale)),
                     RDiv(R(rect.height), RDiv(R(MAP_HEIGHT), scale)))
           offset == RDiv(RSub(extent, RMul(RDiv(R(base), scale), u)), R(2))
       IN  RAdd(RDiv(RNeg(t), scale), RDiv(RSub(c, offset), u))

\* the anchor (cx, cy) shows the same content point under t1 and under t2
AnchorFixed(t1, t2, cx, cy, rect) ==
  /\ REq(contentCoord(variant, cx, R(rect.width), MAP_WIDTH, t1.x, t1.scale, rect),
         contentCoord(variant, cx, R(rect.width), MAP_WIDTH, t2.x, t2.scale, rect))
  /\ REq(contentCoord(variant, cy, R(rect.height), MAP_HEIGHT, t1.y, t1.scale, rect),
         contentCoord(variant, cy, R(rect.height), MAP_HEIGHT, t2.y, t2.scale, rect))

\* C1: in every reachable state the scale of the viewport transform lies in
\* [minScale, 20], minScale being 1 in src/src/App.tsx and 1.5 in
\* src/unnamed/part_001, whatever pointer, wheel, reset and fit events ran.
C1_ScaleWithinBounds ==
  /\ RLe(MinScale(variant), transform.scale)
  /\ RLe(transform.scale, MaxScale)

\* a zoom asked for more than the maximum and was clamped to it
C1_ZoomClampedAtMax ==
  /\ transform.scale = MaxScale
  /\ transform.x # R(0)

\* C2: once feedback is present it stays as it is, with selectedId and score,
\* until a round start clears it; in particular a region click while feedback
\* is present changes none of the three.
C2_FeedbackOncePerRound ==
  [][/\ (feedback # NULL /\ feedback' # NULL)
          => UNCHANGED <<feedback, selectedId, score>>
     /\ \A p \in 1..Len(pathData) :
          (feedback # NULL /\ handleCountryClick(p))
            => UNCHANGED <<feedback, selectedId, score>>]_vars

\* a round was answered wrongly and only the feedback keeps a click on the
\* target from being accepted
C2_AnsweredRoundClickable ==
  /\ view = "quiz" /\ feedback # NULL /\ ~feedback.isCorrect
  /\ ~loading /\ pointers = << >> /\ ~suppressClick
  /\ lastGesture = "tap"

\* C3: a region click that follows a completed tap (one pointer, pressed with
\* no other pointer down, released without having moved more than 6 px) and
\* passes the first guard (round active, no feedback, not loading, at most one
\* pointer) is accepted as a selection, whatever preceded the tap.
C3_ClickAfterTapAccepted ==
  [][\A p \in 1..Len(pathData) :
       (/\ lastGesture = "tap" /\ pointers = << >>
        /\ clickGuard(Cur, pointers)
        /\ handleCountryClick(p))
         => feedback' # NULL]_vars

\* C4: the release of a single-pointer drag that moved more than 6 px sets
\* the suppression flag; the first region click after it changes nothing; the
\* second one, with no drag or pinch in between, is accepted when it passes
\* the first guard.
C4_DragSuppressesOneClick ==
  [][/\ (lastGesture = "drag" /\ Len(pointers) = 1 /\ pointers' = << >>)
          => suppressClick'
     /\ \A p \in 1..Len(pathData) :
          (clicksSinceDrag = "zero" /\ handleCountryClick(p))
            => UNCHANGED <<feedback, selectedId, score>>
     /\ \A p \in 1..Len(pathData) :
          (/\ clicksSinceDrag = "one"
           /\ clickGuard(Cur, pointers)
           /\ handleCountryClick(p))
            => feedback' # NULL]_vars

\* C5: a region click while a hint request is in flight changes none of
\* feedback, selectedId and score.
C5_ClickIgnoredWhileHintInFlight ==
  [][\A p \in 1..Len(pathData) :
       (hintReqs # << >> /\ handleCountryClick(p))
         => UNCHANGED <<feedback, selectedId, score>>]_vars

\* C6: the answer to a hint request made for another region than the current
\* round's target leaves the hint as it is.
C6_StaleHintDiscarded ==
  [][\A i \in 1..Len(hintReqs), kind \in ResponseKinds :
       (hintReqs[i].feature # currentCountry /\ HintSettle(i, kind))
         => hint' = hint]_vars

\* C7: a region click while two or more pointers are down changes none of
\* feedback, selectedId and score.
C7_NoSelectionWithTwoPointers ==
  [][\A p \in 1..Len(pathData) :
       (Len(pointers) >= 2 /\ handleCountryClick(p))
         => UNCHANGED <<feedback, selectedId, score>>]_vars

\* two pointers are down and nothing else keeps a click from being accepted
C7_TwoPointersOnlyObstacle ==
  /\ Len(pointers) = 2
  /\ view = "quiz" /\ feedback = NULL /\ ~loading /\ Truthy(currentCountry)
  /\ ~suppressClick /\ pathData # << >>

\* a step that is a wheel event at pos keeps the content point under pos
WheelKeepsAnchor ==
  (transform' # transform /\ pointers' = pointers) =>
    \A pos \in DragPositions, k \in ExtremeWheel \cup NotchWheel, rect \in Rects :
      handleWheel(pos[1], pos[2], k, rect)
        => AnchorFixed(transform, transform',
                       R(pos[1] - rect.left), R(pos[2] - rect.top), rect)

\* a step that is a two-pointer move with a positive baseline distance keeps
\* the content point under the new centroid
PinchKeepsAnchor ==
  (transform' # transform /\ Len(pointers) = 2 /\ RLt(R(0), lastDist)) =>
    \A id \in PointerIds, pos \in DragPositions, rect \in Rects :
      (MapHas(pointers, id) /\ handlePointerMove(id, pos[1], pos[2], rect))
        => AnchorFixed(transform, transform',
                       RSub(getCenter(pointers').x, R(rect.left)),
                       RSub(getCenter(pointers').y, R(rect.top)), rect)

\* C8: every zoom step the program takes, a wheel event or a two-pointer
\* move with a positive baseline distance, shows under its anchor (the cursor
\* or the centroid, in viewport-local coordinates) the same content point
\* before and after it, clamped or not, in the algebra of either file.
C8_ZoomAnchorInvariant == [][WheelKeepsAnchor /\ PinchKeepsAnchor]_vars

\* C9: an accepted selection sets isCorrect exactly when the clicked
\* identifier is the target's; it adds 10 to score when correct and nothing
\* when wrong; no other step changes score; with a collection of one region
\* an accepted selection is correct.
C9_ScoreFollowsCorrectness ==
  [][IF feedback = NULL /\ feedback' # NULL
     THEN /\ feedback'.isCorrect
               <=> (selectedId'.id = getCountryId(currentCountry.properties))
          /\ score' = IF feedback'.isCorrect THEN score + ScoreAward ELSE score
          /\ Len(geoData.features) = 1 => feedback'.isCorrect
     ELSE score' = score]_vars

\* the only region of a one-region collection was clicked once its hint had
\* loaded
C9_OneRegionAnswered ==
  /\ geoData # NULL /\ Len(geoData.features) = 1
  /\ apiKey /\ hint # NULL
  /\ feedback # NULL /\ feedback.isCorrect
  /\ score = ScoreAward

\* C10: START GAME with the collection absent or loaded but empty leaves
\* currentCountry, hint, loading, feedback and selectedId as they are and
\* starts no hint request.
C10_NoRoundWithoutRegions ==
  [][\A pick \in Picks(Cur) :
       (/\ geoData = NULL \/ geoData.features = << >>
        /\ StartGame(pick, pick))
         => UNCHANGED <<currentCountry, hint, loading, feedback, selectedId,
                        hintReqs>>]_vars

\* C11: a hint request that settles leaves a hint: the fallback hint of its
\* region when the answer has no text, cannot be parsed or the call failed;
\* without an API key a round start stores the fallback hint of the new
\* target at once.
C11_SettledHintUsable ==
  [][/\ \A i \in 1..Len(hintReqs), kind \in ResponseKinds :
          HintSettle(i, kind) =>
            /\ hint' # NULL
            /\ kind \in {"no-text", "bad-json", "failed"}
                 => hint' = buildFallbackHint(hintReqs[i].feature)
     /\ \A pick \in Picks(Cur) :
          (/\ ~apiKey /\ Truthy(currentCountry')
           /\ StartGame(pick, pick) \/ NextChallenge(pick, pick))
            => hint' = buildFallbackHint(currentCountry')]_vars

\* the text parts the coordinate pattern matches
MentionsCoordinates(text) ==
  \E i \in 1..Len(text) :
    text[i] \in {"latitude", "longitude", "north-lat", "south-lat", "east-lon",
                 "west-lon", "degree"}

\* C12: the stored hint never mentions coordinates in main_hint or summary,
\* and the answer to a hint request whose main_hint or summary does leaves
\* the fallback hint of the request's region as the hint.
C12_CoordinateHintRejected ==
  /\ [](hint # NULL =>
          ~MentionsCoordinates(hint.main_hint) /\ ~MentionsCoordinates(hint.summary))
  /\ [][\A i \in 1..Len(hintReqs), kind \in {"ok", "coordinate", "coordinate-summary"} :
          LET parsed == RemoteHint(getEnglishName(hintReqs[i].feature.properties), kind)
          IN  (/\ MentionsCoordinates(parsed.main_hint)
                    \/ MentionsCoordinates(parsed.summary)
               /\ HintSettle(i, kind))
                => hint' = buildFallbackHint(hintReqs[i].feature)]_vars

\* the service answered the current round's request with coordinates in the
\* summary only, and the fallback hint of the target is shown
C12_CoordinateSummaryReplaced ==
  /\ lastSettled # NULL /\ lastSettled.kind = "coordinate-summary"
  /\ lastSettled.feature = currentCountry
  /\ hintReqs = << >>
  /\ hint = buildFallbackHint(currentCountry)

\* a region with a Polygon or MultiPolygon geometry of at least one point and
\* a non-empty name
WellFormedRegion(f) ==
  /\ f.geometry # NULL
  /\ f.geometry.type \in {"Polygon", "MultiPolygon"}
  /\ Len(extractPoints(f.geometry)) >= 1
  /\ f.properties.ADMIN # "" \/ f.properties.name # ""

\* C13: every region of the loaded collection, and so every round's target,
\* has a Polygon or MultiPolygon geometry with at least one point and a
\* non-empty name.
C13_LoadedRegionsWellFormed ==
  /\ geoData # NULL =>
       \A i \in 1..Len(geoData.features) : WellFormedRegion(geoData.features[i])
  /\ Truthy(currentCountry) => WellFormedRegion(currentCountry)

\* a raw feature the loader is to admit: Polygon or MultiPolygon geometry and
\* one of the name fields; in src/unnamed/part_001, moreover, a name off the
\* exclusion list and an alpha-3 code other than -99 and -1
Admitted(f) ==
  /\ f.geometry.type \in {"Polygon", "MultiPolygon"}
  /\ f.properties.ADMIN # "" \/ f.properties.name # ""
  /\ variant = "viewBox" =>
       /\ (IF f.properties.ADMIN # "" THEN f.properties.ADMIN ELSE f.properties.name)
            \notin ExcludeList
       /\ (IF f.properties.ISO_A3 # "" THEN f.properties.ISO_A3
           ELSE f.properties.Alpha3) \notin {"-99", "-1"}

AdmittedOf(raw) ==
  LET kept == SelectSeq(raw, Admitted)
  IN  [i \in 1..Len(kept) |-> [type |-> "Feature", geometry |-> kept[i].geometry,
                               properties |-> kept[i].properties]]

\* C14: the collection a successful geometry fetch stores is the sequence of
\* the admitted input features, in input order; a feature without a name
\* field is left out even when its geometry is valid.
C14_LoadKeepsExactlyAdmitted ==
  [][\A raw \in LoadCollections :
       \A pick \in PicksOf(FilterValid(variant, raw)) :
         GeoFetchOk(raw, pick) =>
           /\ geoData' # NULL
           /\ geoData'.features = AdmittedOf(raw)
           /\ \A i \in 1..Len(geoData'.features) :
                geoData'.features[i].properties # F_NONAME.properties]_vars

\* src/src/App.tsx loaded Greenland, Kosovo and Fiji of the collection whose
\* third feature has a valid geometry and no name
C14_NamelessLeftOut ==
  /\ variant = "px" /\ geoData # NULL
  /\ Len(geoData.features) = 3
  /\ geoData.features[1].properties = F_GRL.properties
  /\ geoData.features[2].properties = F_KOS.properties
  /\ geoData.features[3].properties = F_FJI.properties

\* The viewport-local coordinate at which the point p of the map's user
\* space is drawn along one axis; extent and base are the container's and
\* the map's size along that axis.  src/src/App.tsx: an <svg> with the
\* viewBox 0 0 800 400 fills the layer, letterboxed (scale
\* min(W / 800, H / 400), centred), and the layer is drawn under
\* `translate(x, y) scale(s)` with origin 0 0.  src/unnamed/part_001: the
\* <svg> with the viewBox `-x/s -y/s 800/s 400/s` fills the container,
\* letterboxed the same way.
screenCoord(v, p, extent, base, t, scale, rect) ==
  LET baseScale == RMin(RDiv(R(rect.width), R(MAP_WIDTH)),
                        RDiv(R(rect.height), R(MAP_HEIGHT)))
      offset == RDiv(RSub(extent, RMul(R(base), baseScale)), R(2))
  IN  IF v = "px"
      THEN RAdd(t, RMul(scale, RAdd(offset, RMul(p, baseScale))))
      ELSE RAdd(offset, RMul(RAdd(p, RDiv(t, scale)), RMul(scale, baseScale)))

screenX(p, t, rect) ==
  screenCoord(variant, p, R(rect.width), MAP_WIDTH, t.x, t.scale, rect)
screenY(p, t, rect) ==
  screenCoord(variant, p, R(rect.height), MAP_HEIGHT, t.y, t.scale, rect)

\* the outline of the region f itself, as the path builder renders it
OwnBounds(f) == BBoxOf(OutlineOf(f))

\* C15: a frame is pending only while feedback is present and for the current
\* round's target; the step that sets feedback requests the frame and leaves
\* the transform alone; the bounds the frame measures are those of the
\* target's own outline in the current path data.
C15_FitDeferredAndCurrent ==
  /\ [](raf # NULL =>
          /\ feedback # NULL /\ raf.target = currentCountry
          /\ MeasureBounds(pathData, raf.target) # NULL
               => MeasureBounds(pathData, raf.target) = OwnBounds(currentCountry))
  /\ [][(feedback = NULL /\ feedback' # NULL)
          => (transform' = transform /\ raf' # NULL)]_vars

\* C16: a fit draws the centre of the bounds it measured at the centre of
\* the container, on every container and whether or not the scale was
\* clamped.
C16_FitCentresBounds ==
  [][\A rect \in FitRects :
       (raf # NULL /\ RunFit(rect)) =>
         LET b == MeasureBounds(pathData, raf.target)
         IN  b # NULL =>
               /\ REq(screenX(RDiv(RAdd(b.minX, b.maxX), R(2)), transform', rect),
                      RDiv(R(rect.width), R(2)))
               /\ REq(screenY(RDiv(RAdd(b.minY, b.maxY), R(2)), transform', rect),
                      RDiv(R(rect.height), R(2)))]_vars

\* a fit on the square container was clamped at the maximum scale
C16_ClampedFitOnSquare ==
  /\ lastFit # NULL /\ lastFit.after = transform
  /\ lastFit.rect.width = lastFit.rect.height
  /\ transform.scale = MaxScale

\* C17: the scale of a fit is min(scaleX, scaleY) clamped to [minScale, 20],
\* scaleX and scaleY being the scales at which the measured box is drawn
\* (container width - 80) wide and (container height - 80) high; unless the
\* lower clamp raised it, the box is drawn at least 40 px inside the
\* container on every side.
C17_FitScaleLeavesPadding ==
  [][\A rect \in FitRects :
       (raf # NULL /\ RunFit(rect)) =>
         LET b == MeasureBounds(pathData, raf.target)
         IN  b # NULL =>
               LET unit == RMin(RDiv(R(rect.width), R(MAP_WIDTH)),
                                RDiv(R(rect.height), R(MAP_HEIGHT)))
                   scaleX == RDiv(R(rect.width - 2 * 40),
                                  RMul(RSub(b.maxX, b.minX), unit))
                   scaleY == RDiv(R(rect.height - 2 * 40),
                                  RMul(RSub(b.maxY, b.minY), unit))
                   wanted == RMin(scaleX, scaleY)
               IN  /\ REq(transform'.scale,
                          RMax(MinScale(variant), RMin(R(20), wanted)))
                   /\ RLe(MinScale(variant), wanted) =>
                        /\ RLe(R(40), screenX(b.minX, transform', rect))
                        /\ RLe(screenX(b.maxX, transform', rect), R(rect.width - 40))
                        /\ RLe(R(40), screenY(b.minY, transform', rect))
                        /\ RLe(screenY(b.maxY, transform', rect),
                               R(rect.height - 40))]_vars

\* C18: a fit that measures the same bounds on the same container as the fit
\* before it leaves the same transform, whatever transform it starts from.
C18_FitIgnoresPriorTransform ==
  [][\A rect \in FitRects :
       (/\ raf # NULL /\ lastFit # NULL
        /\ RunFit(rect)
        /\ lastFit.rect = rect
        /\ lastFit.bounds = MeasureBounds(pathData, raf.target))
         => transform' = lastFit.after]_vars

\* two fits in a row measured the same bounds on the same container and
\* started from different transforms, the second from a wheel zoom to the
\* maximum scale
C18_SameFitFromTwoTransforms ==
  /\ lastFit # NULL /\ lastFit.again
  /\ lastFit.before.scale = MaxScale
  /\ lastFit.after.scale # MaxScale

\* C19: a geometry fetch that settles without a collection sets error; from
\* then on the collection is absent, loading is false, no round is active
\* and no hint is requested or shown, whatever the user does.
C19_FetchFailureBlocksRounds ==
  /\ [](error # NULL =>
          /\ geoData = NULL /\ ~loading
          /\ currentCountry = NULL /\ hintReqs = << >> /\ hint = NULL
          /\ feedback = NULL)
  /\ [][(geoFetch = "pending" /\ geoFetch' = "settled" /\ geoData' = NULL)
          => error' # NULL]_vars

\* the fetch failed and START GAME was pressed since
C19_StartPressedAfterFailure ==
  /\ error # NULL /\ view = "quiz"

\* C20: an accepted selection sets feedback, selectedId and score to values
\* that depend on the clicked identifier, the target and the old score only,
\* user or no user; it hands one round to the history store when a user is
\* present and none otherwise; no other step starts a write; a write that
\* succeeds or fails leaves the quiz state and the transform as they are.
C20_HistoryWriteApart ==
  [][/\ \A p \in 1..Len(pathData) :
          (feedback = NULL /\ feedback' # NULL /\ handleCountryClick(p)) =>
            LET hit == pathData[p].id = getCountryId(currentCountry.properties)
            IN  /\ feedback'.isCorrect = hit
                /\ selectedId' = [id |-> pathData[p].id]
                /\ score' = IF hit THEN score + 10 ELSE score
                /\ IF user # NULL
                   THEN /\ Len(writes') = Len(writes) + 1
                        /\ SubSeq(writes', 1, Len(writes)) = writes
                        /\ writes'[Len(writes')].isCorrect = hit
                        /\ writes'[Len(writes')].countryName
                             = getJapaneseName(currentCountry.properties)
                   ELSE writes' = writes
     /\ Len(writes') > Len(writes) =>
          (user # NULL /\ feedback = NULL /\ feedback' # NULL)
     /\ Len(writes') < Len(writes) =>
          UNCHANGED <<quizVars, transform, gestureVars>>]_vars

\* the one round written so far was answered with a user present, its write
\* failed, and the answer stands
C20_FailedWriteAnswerStands ==
  /\ user # NULL /\ clock = 1
  /\ writes = << >> /\ history = << >>
  /\ feedback # NULL /\ selectedId # NULL

\* a step in which startNewQuestion ran on a loaded, non-empty collection and
\* drew the region number pick: from START GAME, from NEXT CHALLENGE, or from
\* the auto-start effect when the collection arrives in the quiz view
StartsRound(pick) ==
  \/ /\ geoData # NULL /\ geoData.features # << >>
     /\ StartGame(pick, pick) \/ NextChallenge(pick, pick)
  \/ /\ view = "quiz" /\ ~Truthy(currentCountry)
     /\ \E raw \in RawCollections :
          FilterValid(variant, raw) # << >> /\ GeoFetchOk(raw, pick)

\* C21: startNewQuestion on a non-empty collection makes a region of the
\* loaded collection the target, clears feedback and selectedId, expands the
\* hint panel, drops the old hint and calls the hint provider once for the new
\* target (with an API key: hint empty, loading set, one more request in
\* flight, for the target; without one the provider answers at once with the
\* target's fallback hint); score and the viewport transform stay as they are.
C21_RoundStartEffects ==
  [][\A pick \in Picks([geoData |-> geoData']) :
       StartsRound(pick) =>
         /\ \E i \in 1..Len(geoData'.features) : currentCountry' = geoData'.features[i]
         /\ feedback' = NULL /\ selectedId' = NULL
         /\ isHintMinimized' = FALSE
         /\ IF apiKey
            THEN /\ hint' = NULL /\ loading'
                 /\ hintReqs' = Append(hintReqs, [feature |-> currentCountry'])
            ELSE /\ hint' = buildFallbackHint(currentCountry') /\ ~loading'
                 /\ hintReqs' = hintReqs
         /\ score' = score
         /\ transform' = transform]_vars

\* a second round was started after a correct answer: nothing of the round
\* before is left but the score, and the request for the new target is in
\* flight
C21_SecondRoundRequested ==
  /\ view = "quiz" /\ score = ScoreAward
  /\ feedback = NULL /\ selectedId = NULL /\ ~isHintMinimized
  /\ hint = NULL /\ loading
  /\ hintReqs # << >> /\ hintReqs[Len(hintReqs)].feature = currentCountry

\* C22: resetView sets the transform to translation (0, 0) and scale 1
\* (src/src/App.tsx) or 1.5 (src/unnamed/part_001), whatever it was, and
\* leaves the pointers, the stored centroid and baseline, the drag state,
\* the suppression flag and the quiz state as they are.
C22_ResetViewEffects ==
  [][resetView =>
       /\ transform' = [x |-> R(0), y |-> R(0),
                        scale |-> IF variant = "px" THEN R(1) ELSE <<3, 2>>]
       /\ UNCHANGED <<pointers, lastCenter, lastDist, dragState, suppressClick>>
       /\ UNCHANGED quizVars]_vars

\* the view was reset in the middle of a pinch, with a suppressed click
\* outstanding, a round answered and its fit still pending
C22_ResetDuringPinch ==
  /\ lastWrite = "reset"
  /\ transform = resetTransform(variant)
  /\ Len(pointers) = 2 /\ dragState.moved /\ suppressClick
  /\ feedback # NULL /\ raf # NULL

RangeOf(seq) == {seq[i] : i \in 1..Len(seq)}

\* the points of a geometry, whatever their order and nesting
PointsOf(geometry) ==
  IF geometry.type = "Polygon"
  THEN UNION {RangeOf(ring) : ring \in RangeOf(geometry.coordinates)}
  ELSE UNION {RangeOf(ring) : ring \in UNION {RangeOf(poly) : poly \in RangeOf(geometry.coordinates)}}

Least(S) == CHOOSE m \in S : \A x \in S : m <= x
Greatest(S) == CHOOSE m \in S : \A x \in S : m >= x

IsFragmented(geometry) ==
  geometry.type = "MultiPolygon" /\ Len(geometry.coordinates) > 1

\* the labels the claim gives a region with points: from the sign of the
\* centre of its bounding box (centre >= 0 iff least + greatest >= 0), from
\* the area of the box against 20 and 80, and from its kind
LabelsOf(f) ==
  LET lats == {pt[2] : pt \in PointsOf(f.geometry)}
      lons == {pt[1] : pt \in PointsOf(f.geometry)}
      area == (Greatest(lats) - Least(lats)) * (Greatest(lons) - Least(lons))
  IN  [lat |-> IF Least(lats) + Greatest(lats) >= 0 THEN "north" ELSE "south",
       lon |-> IF Least(lons) + Greatest(lons) >= 0 THEN "east" ELSE "west",
       size |-> IF area < 20 THEN "small" ELSE IF area < 80 THEN "medium" ELSE "large",
       shape |-> IF IsFragmented(f.geometry) THEN "fragmented" ELSE "contiguous"]

\* hnt is the hint that carries the labels of f and f's name
CarriesLabels(hnt, f) ==
  LET name == getJapaneseName(f.properties)
      l == LabelsOf(f)
  IN  /\ hnt.summary = <<name, l.lat, l.lon, l.size>>
      /\ hnt.main_hint = <<name, l.lat, l.lon, l.shape, l.size>>

\* the regions with the properties of f whose geometry is a box of the
\* bounding box and the shape kind of f
SameBoundsAndKind(f) ==
  LET lats == {pt[2] : pt \in PointsOf(f.geometry)}
      lons == {pt[1] : pt \in PointsOf(f.geometry)}
  IN  {g \in {[BoxRegion(type, parts, TRUE, Least(lons), Least(lats),
                         Greatest(lons) - Least(lons), Greatest(lats) - Least(lats))
                 EXCEPT !.properties = f.properties] :
                type \in {"Polygon", "MultiPolygon"}, parts \in {1, 2}} :
         IsFragmented(g.geometry) = IsFragmented(f.geometry)}

DrawnPoints(d) == SelectSeq(d, LAMBDA tok : tok.cmd = "pt")

\* geographic points at the limits and in the middle of the valid range
GridPoints == {<<lon, lat>> : lon \in {-180, -90, 0, 90, 180}, lat \in {-90, 0, 90}}

\* C24: every point (lon, lat) of a loaded region, -180 <= lon <= 180 and
\* -90 <= lat <= 90, is drawn at x = (lon + 180) * 800/360 and
\* y = (90 - lat) * 400/180, within [0, 800] x [0, 400]; of two points the one
\* with the greater longitude has the strictly greater x and the one with the
\* greater latitude the strictly smaller y, among the points of the region and
\* against the projection of every point of the grid.
C24_ProjectLinearMonotone ==
  (geoData # NULL /\ Len(geoData.features) = 1 /\ Len(pathData) = 1) =>
    LET geo == extractPoints(geoData.features[1].geometry)
        drawn == DrawnPoints(pathData[1].d)
    IN  /\ Len(drawn) = Len(geo)
        /\ \A i \in 1..Len(geo) :
             /\ REq(drawn[i].x, <<(geo[i][1] + 180) * 800, 360>>)
             /\ REq(drawn[i].y, <<(90 - geo[i][2]) * 400, 180>>)
             /\ RLe(R(0), drawn[i].x) /\ RLe(drawn[i].x, R(800))
             /\ RLe(R(0), drawn[i].y) /\ RLe(drawn[i].y, R(400))
             /\ \A j \in 1..Len(geo) :
                  /\ geo[i][1] < geo[j][1] => RLt(drawn[i].x, drawn[j].x)
                  /\ geo[i][2] < geo[j][2] => RLt(drawn[j].y, drawn[i].y)
             /\ \A q \in GridPoints :
                  /\ geo[i][1] < q[1] => RLt(drawn[i].x, project(q)[1])
                  /\ geo[i][1] > q[1] => RLt(project(q)[1], drawn[i].x)
                  /\ geo[i][2] < q[2] => RLt(project(q)[2], drawn[i].y)
                  /\ geo[i][2] > q[2] => RLt(drawn[i].y, project(q)[2])

\* a region with a corner at longitude 180 and latitude -90 is drawn with a
\* point at (800, 400)
C24_CornerOfTheMapDrawn ==
  /\ Len(pathData) = 1
  /\ \E i \in 1..Len(pathData[1].d) :
       /\ pathData[1].d[i].cmd = "pt"
       /\ pathData[1].d[i].x = R(800) /\ pathData[1].d[i].y = R(400)

\* C25: a pointer-up or pointer-cancel that leaves pointers held leaves
\* lastCenter equal to the centroid of the pointers still held and, when two
\* or more are still held, lastDist equal to their distance; also when three
\* pointers were held before it.
C25_ReleaseRecomputesBaseline ==
  [][\A id \in PointerIds \cup {3} :
       (handlePointerUp(id) /\ Len(pointers') >= 1) =>
         /\ lastCenter' = getCenter(pointers')
         /\ Len(pointers') >= 2 => lastDist' = getDist(pointers')]_vars

\* C26: the release of a pointer while two pointers are down sets the
\* suppression flag, whether or not a pointer moved, and the region click that
\* follows such a release changes none of feedback, selectedId and score.
C26_TwoPointerTouchSuppressesClick ==
  [][/\ \A id \in PointerIds :
          (Len(pointers) >= 2 /\ handlePointerUp(id)) => suppressClick'
     /\ \A p \in 1..Len(pathData) :
          (pinchReleased /\ handleCountryClick(p))
            => UNCHANGED <<feedback, selectedId, score>>]_vars

\* two pointers were pressed and released without any move or other write to
\* the transform, and only the suppression flag keeps the click that follows
\* from being accepted
C26_StillTwoPointerTouchReleased ==
  /\ pinchReleased /\ lastWrite = "none"
  /\ pointers = << >> /\ suppressClick
  /\ clickGuard(Cur, pointers) /\ pathData # << >>

\* C27: a move of the only pointer held adds (new position - previous
\* position) to the translation and leaves the scale as it is; while a
\* pointer is the only one held and only its moves wrote the transform, the
\* translation differs from the one at the start of the drag by exactly
\* (position now - position at the start).
C27_PanAddsPointerDelta ==
  /\ [][\A id \in PointerIds, pos \in DragPositions, rect \in Rects :
          (/\ Len(pointers) = 1 /\ MapHas(pointers, id)
           /\ handlePointerMove(id, pos[1], pos[2], rect))
            => transform' = [x |-> RAdd(transform.x, R(pos[1] - pointers[1].x)),
                             y |-> RAdd(transform.y, R(pos[2] - pointers[1].y)),
                             scale |-> transform.scale]]_vars
  /\ [](Len(pointers) = 1 /\ dragFrom # NULL =>
          transform = [x |-> RAdd(dragFrom.t.x, R(pointers[1].x - dragFrom.x)),
                       y |-> RAdd(dragFrom.t.y, R(pointers[1].y - dragFrom.y)),
                       scale |-> dragFrom.t.scale])

\* a drag that started at the greatest scale, with the pointer away from
\* where it started
C27_DraggedAtFullZoom ==
  /\ Len(pointers) = 1 /\ dragFrom # NULL /\ lastWrite = "pan"
  /\ dragFrom.t.scale = MaxScale
  /\ pointers[1].x # dragFrom.x

\* the position (x, y) is more than 6 px away from the drag start
BeyondSixPx(start, x, y) ==
  LET dx == RSub(R(x), start.x)
      dy == RSub(R(y), start.y)
  IN  RLt(R(6 * 6), RAdd(RMul(dx, dx), RMul(dy, dy)))

\* C28: while one pointer is held, the moved flag is set by the first move
\* that takes the pointer more than 6 px away from where the drag started
\* (and by no move that stays within 6 px), is set whenever the pointer is
\* more than 6 px away from there, and once set stays set under every event
\* that leaves this pointer the only one held.
C28_MovedFlagLatches ==
  /\ [][\A pos \in DragPositions \cup {<<6, 0>>}, rect \in Rects :
          (/\ Len(pointers) = 1 /\ dragState.start # NULL
           /\ handlePointerMove(pointers[1].id, pos[1], pos[2], rect))
            => (dragState'.moved <=>
                  (dragState.moved \/ BeyondSixPx(dragState.start, pos[1], pos[2])))]_vars
  /\ [][(/\ Len(pointers) = 1 /\ Len(pointers') = 1
         /\ pointers'[1].id = pointers[1].id
         /\ dragState.moved)
          => dragState'.moved]_vars
  /\ [](Len(pointers) = 1 /\ dragState.start # NULL
          /\ BeyondSixPx(dragState.start, pointers[1].x, pointers[1].y)
          => dragState.moved)

\* a drag went beyond the threshold and came back to 6 px from its start,
\* with the flag still set
C28_BackWithinThreshold ==
  /\ Len(pointers) = 1 /\ dragState.moved
  /\ dragState.start = Pt(R(0), R(0))
  /\ pointers[1].x = 6 /\ pointers[1].y = 0

\* a number the program can compute with: not Infinity (n/0), which
\* exact arithmetic produces where a double division by zero would
Finite(r) == r[2] > 0

\* C29: a two-pointer move whose stored baseline distance is 0 leaves the
\* transform as it is and stores the distance of the two pointers as the new
\* baseline; in every reachable state, after coincident pointers and wheel
\* events whose factor over- or underflows, the transform is a triple of
\* finite numbers with a positive scale; and a wheel event that asks for a
\* scale beyond a limit is applied with the scale at that limit.
C29_GestureMathTotal ==
  /\ [][\A id \in PointerIds, pos \in DragPositions, rect \in Rects :
          (/\ Len(pointers) = 2 /\ MapHas(pointers, id) /\ lastDist = R(0)
           /\ handlePointerMove(id, pos[1], pos[2], rect))
            => /\ transform' = transform
               /\ RLe(R(0), lastDist')
               /\ REq(RMul(lastDist', lastDist'),
                      R((pointers'[1].x - pointers'[2].x) * (pointers'[1].x - pointers'[2].x)
                        + (pointers'[1].y - pointers'[2].y) * (pointers'[1].y - pointers'[2].y)))]_vars
  /\ [][\A pos \in DragPositions, k \in ExtremeWheel, rect \in Rects :
          handleWheel(pos[1], pos[2], k, rect)
            => transform'.scale = IF k > 0 THEN MaxScale ELSE MinScale(variant)]_vars
  /\ [](/\ Finite(transform.x) /\ Finite(transform.y) /\ Finite(transform.scale)
        /\ RLt(R(0), transform.scale)
        /\ Finite(lastDist) /\ RLe(R(0), lastDist))

\* two pointers rest on the same point (baseline 0) with the map at its
\* greatest scale after a wheel event whose factor overflowed
C29_CoincidentPointersAtFullZoom ==
  /\ Len(pointers) = 2 /\ lastDist = R(0)
  /\ pointers[1].x = pointers[2].x /\ pointers[1].y = pointers[2].y
  /\ transform.scale = MaxScale

\* the outline string of f is not empty: a Polygon with a ring (an empty
\* ring is drawn as "MZ"), a MultiPolygon whose only polygon has a ring, or a
\* MultiPolygon of several polygons (their outlines are joined by " ")
HasOutline(f) ==
  LET c == f.geometry.coordinates
  IN  IF f.geometry.type = "Polygon" THEN Len(c) > 0
      ELSE Len(c) > 1 \/ (Len(c) = 1 /\ Len(c[1]) > 0)

\* C30: pathData holds, in the order of the loaded collection, one entry for
\* each loaded region whose outline string is not empty, with the region's
\* identifier, name and projected points, and no other entry; regions with the
\* same identifier keep an entry each.
C30_PathDataFollowsInput ==
  geoData # NULL =>
    LET drawable == SelectSeq(geoData.features, HasOutline)
    IN  /\ Len(pathData) = Len(drawable)
        /\ \A k \in 1..Len(drawable) :
             LET geo == extractPoints(drawable[k].geometry)
                 drawn == DrawnPoints(pathData[k].d)
             IN  /\ pathData[k].id = getCountryId(drawable[k].properties)
                 /\ pathData[k].name = getJapaneseName(drawable[k].properties)
                 /\ pathData[k].d # << >>
                 /\ Len(drawn) = Len(geo)
                 /\ \A i \in 1..Len(geo) :
                      drawn[i].x = project(geo[i])[1] /\ drawn[i].y = project(geo[i])[2]

\* a collection was loaded of which one region is left out of pathData and
\* two others are drawn under the same identifier
C30_CollidingIdentifiersDrawn ==
  /\ geoData # NULL /\ Len(pathData) < Len(geoData.features)
  /\ \E i, j \in 1..Len(pathData) :
       i < j /\ pathData[i].id = pathData[j].id /\ pathData[i].d # pathData[j].d

\* C31: while a round is active its target region has an entry of its own in
\* pathData (the entry the path builder makes of the target: its identifier,
\* its name and its outline), so that a click on the target is possible.
C31_TargetIsDrawn ==
  (view = "quiz" /\ Truthy(currentCountry)) =>
    \E p \in 1..Len(pathData) :
      /\ pathData[p].id = getCountryId(currentCountry.properties)
      /\ pathData[p].name = getJapaneseName(currentCountry.properties)
      /\ pathData[p].d = OutlineOf(currentCountry)

\* C32: when no request is outstanding (the geometry fetch has settled and no
\* hint request is suspended), loading is false, and a click on a region of
\* a round in progress is not turned away for loading.
C32_LoadingSettles ==
  (geoFetch = "settled" /\ hintReqs = << >>) =>
    /\ ~loading
    /\ (view = "quiz" /\ Truthy(currentCountry) /\ feedback = NULL /\ pointers = << >>)
         => clickGuard(Cur, pointers)

\* the container whose aspect is the map's, 2:1
WideRect == [left |-> 0, top |-> 0, width |-> 800, height |-> 400]

\* C33: in src/unnamed/part_001, when two wheel events are handled before
\* the component renders again, the second step shows under its cursor the
\* same content point before it (under the transform the first step left)
\* and after it; stated for the container of aspect 2:1, in which every
\* single step keeps its anchor.
C33_QueuedZoomKeepsAnchor ==
  [][variant = "viewBox" =>
       \A pos1 \in DragPositions, pos2 \in DragPositions,
          k1 \in ExtremeWheel, k2 \in ExtremeWheel :
         handleWheelQueued(pos1[1], pos1[2], k1, pos2[1], pos2[2], k2, WideRect)
           => AnchorFixed(ZoomStep(variant, transform, transform, R(pos1[1]), R(pos1[2]),
                                   WideRect, zoomFactorOf(k1)),
                          transform', R(pos2[1]), R(pos2[2]), WideRect)]_vars

\* C34: a step that changes feedback, the target or the path data while a
\* frame is pending leaves no frame pending but one requested for the new
\* feedback and target; a fit that is applied to the transform is the fit of
\* the current round's target, computed while its feedback is shown, so none
\* is applied for an earlier round once startNewQuestion has run.
C34_StaleFitCancelled ==
  [][/\ (raf # NULL /\ <<feedback', currentCountry', pathData'>>
                         # <<feedback, currentCountry, pathData>>)
          => (raf' = NULL \/ (feedback' # NULL /\ raf'.target = currentCountry'))
     /\ (feedback # NULL /\ feedback' = NULL) => raf' = NULL
     /\ ((\E rect \in FitRects : RunFit(rect)) /\ transform' # transform)
          => (feedback # NULL /\ raf.target = currentCountry)]_vars

\* a round was answered correctly and the next round started before the
\* frame ran: no fit has run so far and none is pending
C34_NextRoundBeforeFrame ==
  /\ score > 0 /\ view = "quiz" /\ feedback = NULL /\ Truthy(currentCountry)
  /\ lastFit = NULL /\ raf = NULL

\* C35: a click that is accepted and judged correct is a click on the path
\* drawn for the round's target itself (the target's name and outline),
\* whatever identifiers the loaded regions resolve to.
C35_CorrectOnlyOnTarget ==
  [][\A p \in 1..Len(pathData) :
       (feedback = NULL /\ feedback' # NULL /\ handleCountryClick(p) /\ feedback'.isCorrect)
         => /\ pathData[p].name = getJapaneseName(currentCountry.properties)
            /\ pathData[p].d = OutlineOf(currentCountry)]_vars

\* C36: in every reachable state selectedId is set exactly when feedback is;
\* a step sets the one exactly when it sets the other and clears the one
\* exactly when it clears the other.
C36_SelectionIffFeedback ==
  /\ []((selectedId # NULL) <=> (feedback # NULL))
  /\ [][/\ (selectedId = NULL /\ selectedId' # NULL) <=> (feedback = NULL /\ feedback' # NULL)
        /\ (selectedId # NULL /\ selectedId' = NULL) <=> (feedback # NULL /\ feedback' = NULL)]_vars

\* a round was answered correctly and startNewQuestion has cleared both
C36_ClearedForNextRound ==
  /\ score > 0 /\ view = "quiz" /\ Truthy(currentCountry)
  /\ selectedId = NULL /\ feedback = NULL

\* the identifiers of the pointers in the Map pts
Held(pts) == {pts[i].id : i \in 1..Len(pts)}

\* C37: the pointer Map gains an identifier only by the press of that
\* pointer (with the position of the press) and loses one only by the release
\* or cancel of that pointer, every press adds and every release removes;
\* lastCenter is null exactly when the Map is empty; when the Map becomes
\* empty, and whenever it is empty, the drag state is {start: null, moved:
\* false}.
C37_PointerSetTracksPresses ==
  /\ [](lastCenter = NULL <=> pointers = << >>)
  /\ [](pointers = << >> => dragState = [start |-> NULL, moved |-> FALSE])
  /\ [][LET ids == PointerIds \cup {3}
            before == Held(pointers)
            after == Held(pointers')
        IN  /\ after # before =>
                 \/ \E id \in ids \ before, pos \in DragPositions :
                      /\ handlePointerDown(id, pos[1], pos[2])
                      /\ after = before \cup {id}
                      /\ pointers'[Len(pointers')] = [id |-> id, x |-> pos[1], y |-> pos[2]]
                 \/ \E id \in before : handlePointerUp(id) /\ after = before \ {id}
            /\ \A id \in ids \ before, pos \in DragPositions :
                 handlePointerDown(id, pos[1], pos[2]) => after = before \cup {id}
            /\ \A id \in before : handlePointerUp(id) => after = before \ {id}
            /\ (pointers # << >> /\ pointers' = << >>)
                 => dragState' = [start |-> NULL, moved |-> FALSE]]_vars

\* pointers were pressed and all released again after a gesture that moved
\* (a drag, or a touch of several pointers): the Map is empty again
C37_IdleAfterGesture ==
  /\ view = "quiz" /\ pointers = << >> /\ lastCenter = NULL
  /\ suppressClick /\ dragState = [start |-> NULL, moved |-> FALSE]

\* C38: a pointer-move event handled while three or more pointers are down
\* stores the pointer's position and the centre of the first two pointers in
\* lastCenter, and leaves the transform, the baseline distance, the drag
\* state and everything else as they were.
C38_ThreePointerMoveIsInert ==
  [][Len(pointers) >= 3 =>
       \A id \in PointerIds \cup {3}, pos \in DragPositions, rect \in Rects :
         handlePointerMove(id, pos[1], pos[2], rect)
           => /\ transform' = transform
              /\ pointers' = MapSet(pointers, id, pos[1], pos[2])
              /\ lastCenter' = getCenter(pointers')
              /\ UNCHANGED <<lastDist, dragState, suppressClick, quizVars, storeVars>>]_vars

\* a pointer has moved while three were down: the first two pointers are no
\* longer as far apart as the baseline stored for them
C38_MovedWithThreeDown ==
  /\ lastGesture = "crowd" /\ Len(pointers) = 3
  /\ getDist(pointers) # lastDist

\* a wheel event with exponent k, applied to the transform prev, asks for a
\* scale that is clamped back to the scale of prev
ClampedBack(prev, k) ==
  ClampScale(variant, RMul(prev.scale, zoomFactorOf(k))) = prev.scale

\* C39: a wheel event whose requested scale is clamped back to the scale in
\* force, be it handled alone or as the second of two events handled within
\* one render, and a two-pointer move that leaves the distance of the
\* pointers at the stored baseline, leave the whole transform as it was.
C39_NoRescaleNoShift ==
  [][/\ \A pos \in DragPositions, k \in ExtremeWheel \cup NotchWheel, rect \in Rects :
          (handleWheel(pos[1], pos[2], k, rect) /\ ClampedBack(transform, k))
            => transform' = transform
     /\ \A pos1 \in DragPositions, pos2 \in DragPositions,
           k1 \in ExtremeWheel, k2 \in ExtremeWheel, rect \in Rects :
          LET first == ZoomStep(variant, transform, transform, R(pos1[1] - rect.left),
                                R(pos1[2] - rect.top), rect, zoomFactorOf(k1))
          IN  (handleWheelQueued(pos1[1], pos1[2], k1, pos2[1], pos2[2], k2, rect)
               /\ ClampedBack(first, k2))
                => transform' = first
     /\ \A id \in PointerIds, pos \in DragPositions, rect \in Rects :
          (Len(pointers) = 2 /\ handlePointerMove(id, pos[1], pos[2], rect)
           /\ getDist(pointers') = lastDist)
            => transform' = transform]_vars

====
